---- MODULE Spec2Model ----
(***************************************************************************)
(* A model of the conversation orchestrator of the AI social campaign      *)
(* generator (agents/orchestrator.py) and of the three stage agents it     *)
(* dispatches to (agents/brand_analyzer.py, agents/strategy_agent.py,      *)
(* agents/content_creator.py).                                             *)
(*                                                                         *)
(* Strings the code only stores or prints are modelled by a tag naming     *)
(* where they come from ("llm_reply", "ack_fallback", "user_text").  A     *)
(* user text is a record of the features the code reads from it: its       *)
(* length, its counts of '.' and ',', whether it matches the regex         *)
(* \d+\.\s, the set of keywords that occur in its lower-cased form, and    *)
(* its whitespace-split words.  An upstream model call either returns a    *)
(* non-empty reply or raises; the outcome of every call made during one    *)
(* turn is an input of that turn (env).  Optional fields hold "" (or <<>>) *)
(* for None.                                                               *)
(***************************************************************************)
EXTENDS Integers, Sequences, FiniteSets, TLC

VARIABLES
    active_contexts,  \* CampaignOrchestrator.active_contexts: session id -> context
    clock,            \* the wall clock read by datetime.utcnow()
    last,             \* the last call made on the orchestrator and what it returned
    in_flight,        \* the continue_conversation calls suspended in an upstream
                      \* request, and those that resumed and returned
    image_service,    \* ImageService: its settings and its last generate_image call
    memory_manager    \* MemoryManager: memory_cache, the session files, its last call

vars == <<active_contexts, clock, last, in_flight, image_service, memory_manager>>

---------------------------------------------------------------------------
(* Bounds of the model                                                     *)

\* The clock value past which no start/continue call is issued when calls on
\* several sessions are interleaved (Spec).
MaxClock == 11

\* The number of turns of one conversation followed from start to end
\* (SpecSession).
MaxTurns == 4

\* The number of turns of one conversation of short messages, long enough for
\* the history to be pruned after an assistant message and after a user
\* message (SpecHistory).
MaxHistoryTurns == 31

\* The number of turns made on a context that was placed in the store as the
\* tests place one (SpecFixture).
MaxFixtureTurns == 1

\* The number of turns of a conversation in which the user names the business
\* (SpecName).
MaxNameTurns == 3

\* The number of turns of the long conversation.
MaxLongTurns == 7

\* The session identifiers uuid4 may produce.
SessionIds == {"s1", "s2"}

---------------------------------------------------------------------------
(* models/schemas.py                                                       *)

GREETING == "greeting"
DISCOVERY == "discovery"
BRAND_ANALYSIS == "brand_analysis"
STRATEGY_DEVELOPMENT == "strategy_development"
CONTENT_CREATION == "content_creation"
REVIEW_REFINEMENT == "review_refinement"
FINALIZATION == "finalization"

ConversationStage ==
    <<GREETING, DISCOVERY, BRAND_ANALYSIS, STRATEGY_DEVELOPMENT,
      CONTENT_CREATION, REVIEW_REFINEMENT, FINALIZATION>>

Stages == {ConversationStage[i] : i \in 1..Len(ConversationStage)}

\* Position of a stage in the canonical order.
StageOrd(s) == CHOOSE i \in 1..Len(ConversationStage) : ConversationStage[i] = s

USER == "user"
ASSISTANT == "assistant"

\* AgentResponse; next_stage "" is None, questions/suggestions are list lengths.
AgentResponse(message, questions, suggestions, next_stage, requires_clarification) ==
    [message |-> message, questions |-> questions, suggestions |-> suggestions,
     next_stage |-> next_stage, requires_clarification |-> requires_clarification]

\* ConversationContext.campaign_output = None
NoOutput == [ready |-> FALSE, posts |-> <<>>, hashtag_strategy |-> ""]

\* Python truthiness of an Optional[str] field and of an Optional[List] field.
Truthy(x) == x # ""

NonEmptyList(x) == x # <<>>

---------------------------------------------------------------------------
(* User texts: the inputs of continue_conversation                         *)

Word(lower, len, cap) == [lower |-> lower, len |-> len, cap |-> cap]

\* "summer fitness challenge"
TextIdea ==
    [id |-> "idea", len |-> 24, periods |-> 0, commas |-> 0, numbered |-> FALSE, budget |-> "",
     subs |-> {"fitness"},
     words |-> <<Word("summer", 6, "Summer"), Word("fitness", 7, "Fitness"),
                 Word("challenge", 9, "Challenge")>>]

\* "1. We are CCC 2. We sell antique chairs 3. Buyers are collectors 4. sales on facebook"
TextNumbered ==
    [id |-> "numbered", len |-> 84, periods |-> 4, commas |-> 0, numbered |-> TRUE, budget |-> "",
     subs |-> {"ccc", "antique", "chairs", "collectors", "sales", "facebook"},
     words |-> <<Word("1.", 2, "1."), Word("we", 2, "We"), Word("are", 3, "Are"),
                 Word("ccc", 3, "Ccc")>>]

\* A rambling message of 140 characters with five commas and no numbered list,
\* mentioning luxury, strong, everywhere, protein powder.
TextLong ==
    [id |-> "long", len |-> 140, periods |-> 1, commas |-> 5, numbered |-> FALSE, budget |-> "",
     subs |-> {"luxury", "strong", "everywhere", "protein", "protein powder"},
     words |-> <<Word("well", 4, "Well")>>]

\* Exactly 100 characters with four periods and four commas: not "long".
TextHundred ==
    [id |-> "hundred", len |-> 100, periods |-> 4, commas |-> 4, numbered |-> FALSE, budget |-> "",
     subs |-> {"young"},
     words |-> <<Word("ok", 2, "Ok")>>]

Texts == {TextIdea, TextNumbered, TextLong, TextHundred}

\* "I run a Malaysian restaurant called Nasi Lemak Express"
TextRun ==
    [id |-> "run", len |-> 54, periods |-> 0, commas |-> 0, numbered |-> FALSE, budget |-> "",
     subs |-> {"i run", "restaurant"},
     words |-> <<Word("i", 1, "I"), Word("run", 3, "Run"), Word("a", 1, "A"),
                 Word("malaysian", 9, "Malaysian"), Word("restaurant", 10, "Restaurant"),
                 Word("called", 6, "Called"), Word("nasi", 4, "Nasi"),
                 Word("lemak", 5, "Lemak"), Word("express", 7, "Express")>>]

\* The business name a text states ("" when it states none).
StatedName(id) ==
    CASE id = "run" -> "Nasi Lemak Express"
      [] id = "numbered" -> "CCC"
      [] OTHER -> ""

---------------------------------------------------------------------------
(* Upstream model calls                                                    *)

OK == "ok"
RAISE == "raise"
Outcome == {OK, RAISE}

\* A call that returns the empty string: chat() returns response.content as
\* it is.  The model follows it where the reply is passed on as the message
\* of the turn.
EMPTY == "empty"

ReplyText(reply) == IF reply = EMPTY THEN "" ELSE "llm_reply"

\* The largest number of (platform, pillar) tasks of one content turn:
\* at most 2 platforms in the model, pillars capped at 4.
TaskIds == 1..8

\* The outcome of every upstream call one turn can make.
\*   post[i]: the reply to task i's generation request: it raises, or is text
\*            without ("plain") or with ("image") a visual/image section.
AllOk ==
    [parse |-> OK, ack |-> OK, greet1 |-> OK, greet2 |-> OK,
     questions |-> "q1", summary |-> OK,
     strategy |-> OK, pillars |-> OK, pillar_headers |-> 5, platform |-> OK, kpi |-> OK,
     post |-> [i \in TaskIds |-> "plain"], visual1 |-> [i \in TaskIds |-> OK],
     visual2 |-> [i \in TaskIds |-> OK], hashtag |-> OK]

\* What one handler did: the context it left, its response, and the upstream
\* calls it made (calls) and how many of them raised (fails).
Handled(ctx, resp, calls, fails, tasks) ==
    [ctx |-> ctx, resp |-> resp, calls |-> calls, fails |-> fails, tasks |-> tasks,
     visual_calls |-> <<>>]

B2N(b) == IF b THEN 1 ELSE 0

---------------------------------------------------------------------------
(* agents/orchestrator.py: history                                         *)

MaxHistory == 50
KeepHistory == 40

\* Python s[-n:]
LastN(s, n) == IF Len(s) <= n THEN s ELSE SubSeq(s, Len(s) - n + 1, Len(s))

\* A history that is pruned one entry early.
AddMessage_PruneAtLimit(ctx, role, content, now) ==
    LET appended == Append(ctx.messages,
                           [role |-> role, content |-> content, timestamp |-> now])
    IN [ctx EXCEPT !.messages = IF Len(appended) >= MaxHistory
                                THEN LastN(appended, KeepHistory)
                                ELSE appended]

\* A history whose pruning keeps the greeting and the last 39 entries.
AddMessage_KeepsGreeting(ctx, role, content, now) ==
    LET appended == Append(ctx.messages,
                           [role |-> role, content |-> content, timestamp |-> now])
    IN [ctx EXCEPT !.messages = IF Len(appended) > MaxHistory
                                THEN <<appended[1]>> \o LastN(appended, KeepHistory - 1)
                                ELSE appended]

AddMessage(ctx, role, content, now) ==
    LET appended == Append(ctx.messages,
                           [role |-> role, content |-> content, timestamp |-> now])
    IN [ctx EXCEPT !.messages = IF Len(appended) > MaxHistory
                                THEN LastN(appended, KeepHistory)
                                ELSE appended]

\* A heuristic that wants the numbered list and the long, detailed text together.
UserProvidedComprehensiveInfo_Both(message) ==
    message.numbered /\ message.len > 100 /\ (message.periods > 3 \/ message.commas > 3)

UserProvidedComprehensiveInfo(message) ==
    LET has_numbers == message.numbered
        is_long == message.len > 100
        has_multiple_details == message.periods > 3 \/ message.commas > 3
    IN has_numbers \/ (is_long /\ has_multiple_details)

---------------------------------------------------------------------------
(* agents/orchestrator.py: fact extraction                                 *)

\* The value of the first keyword of an ordered keyword table that occurs in
\* the lower-cased message ("" when none does): the for/break loops over
\* business_types and audience_keywords.
RECURSIVE FirstMatch(_, _, _)
FirstMatch(table, subs, i) ==
    IF i > Len(table) THEN ""
    ELSE IF table[i][1] \in subs THEN table[i][2]
    ELSE FirstMatch(table, subs, i + 1)

business_types ==
    << <<"bread", "Food & Bakery">>, <<"food", "Food & Restaurant">>,
       <<"restaurant", "Food & Restaurant">>, <<"clothing", "Fashion & Retail">>,
       <<"tech", "Technology">>, <<"software", "Technology">>,
       <<"consulting", "Professional Services">>, <<"fitness", "Health & Fitness">>,
       <<"beauty", "Beauty & Wellness">>, <<"antique", "Antiques & Collectibles">>,
       <<"chairs", "Furniture & Antiques">>, <<"furniture", "Furniture & Home Decor">> >>

audience_keywords ==
    << <<"young", "Young adults">>, <<"families", "Families">>,
       <<"professionals", "Working professionals">>, <<"students", "Students">>,
       <<"seniors", "Seniors">>, <<"women", "Women">>, <<"men", "Men">>,
       <<"collectors", "Collectors and enthusiasts">> >>

\* The loop over the words of the message: the capitalized word before the
\* first of sell/run/business/company whose predecessor is longer than two
\* characters ("" when there is none).  Python index i > 0 is i > 1 here.
RECURSIVE PotentialName(_, _)
PotentialName(words, i) ==
    IF i > Len(words) THEN ""
    ELSE IF words[i].lower \in {"sell", "run", "business", "company"} /\ i > 1
            /\ words[i - 1].len > 2
         THEN words[i - 1].cap
         ELSE PotentialName(words, i + 1)

\* _extract_structured_information: one upstream call, then unguarded
\* keyword rules.  When the call raises nothing is stored.
ExtractStructuredInformation(ctx, message, env) ==
    IF env.parse = RAISE THEN [ctx |-> ctx, calls |-> 1, fails |-> 1]
    ELSE
    LET ml == message.subs
        ci == ctx.company_info
        cg == ctx.campaign_goals
        name == IF "proteinrx" \in ml THEN "ProteinRX"
                ELSE IF "ccc" \in ml THEN "CCC" ELSE ci.name
        description ==
            IF "protein" \in ml /\ "smoothie" \in ml
                THEN "Health & Fitness - Protein Smoothie Drinks"
            ELSE IF "protein" \in ml /\ "drink" \in ml
                THEN "Health & Fitness - Protein Beverages"
            ELSE IF "antique" \in ml /\ "chairs" \in ml
                THEN "Antiques & Collectibles"
            ELSE ci.description
        target_audience ==
            IF "gym" \in ml /\ ("20-45" \in ml \/ "age" \in ml)
                THEN "Gym-goers and fitness enthusiasts (20-45 years old)"
            ELSE IF "collectors" \in ml THEN "Collectors and enthusiasts"
            ELSE ci.target_audience
        brand_voice == IF "luxury" \in ml /\ "strong" \in ml
                       THEN "Luxury and strong" ELSE ci.brand_voice
        unique_points ==
            (IF "accessible" \in ml /\ "canned" \in ml
                THEN <<"Convenient canned format for accessibility">> ELSE <<>>)
            \o (IF "everywhere" \in ml THEN <<"Available everywhere">> ELSE <<>>)
        competitors == IF "traditional protein powder" \in ml \/ "protein powder" \in ml
                       THEN <<"Traditional protein powder brands">> ELSE ci.competitors
        primary_objective ==
            IF "brand awareness" \in ml THEN "brand_awareness"
            ELSE IF "online presence" \in ml THEN "brand_awareness"
            ELSE IF "sales" \in ml THEN "sales_conversion"
            ELSE cg.primary_objective
        target_platforms ==
            IF "instagram" \in ml THEN <<"instagram">>
            ELSE IF "facebook" \in ml THEN <<"facebook">>
            ELSE cg.target_platforms
        has_assets == ("red and black" \in ml \/ ("red" \in ml /\ "black" \in ml))
                      \/ "lato" \in ml \/ "dumbbell" \in ml \/ "dumbell" \in ml
        keys == {"structured_response", "parsed_info"}
                \cup (IF has_assets THEN {"brand_assets"} ELSE {})
        insights == [k \in DOMAIN ctx.extracted_insights \cup keys |->
                        IF k = "structured_response" THEN [kind |-> "user_text", n |-> 0]
                        ELSE IF k = "parsed_info" THEN [kind |-> "llm_reply", n |-> 0]
                        ELSE IF k = "brand_assets" /\ has_assets
                            THEN [kind |-> "assets", n |-> 0]
                        ELSE ctx.extracted_insights[k]]
    IN [ctx |-> [ctx EXCEPT
                    !.extracted_insights = insights,
                    !.company_info = [ci EXCEPT
                        !.name = name, !.description = description,
                        !.target_audience = target_audience,
                        !.brand_voice = brand_voice,
                        !.unique_selling_points =
                            IF unique_points # <<>> THEN unique_points ELSE @,
                        !.competitors = competitors],
                    !.campaign_goals = [cg EXCEPT
                        !.primary_objective = primary_objective,
                        !.target_platforms = target_platforms,
                        !.budget_range =
                            IF message.budget # "" THEN message.budget ELSE @]],
        calls |-> 1, fails |-> 0]

\* _extract_information: the structured path for a comprehensive message,
\* else the guarded keyword scan (each field only when it is not yet set).
ExtractInformation(ctx, message, env) ==
    IF UserProvidedComprehensiveInfo(message)
    THEN ExtractStructuredInformation(ctx, message, env)
    ELSE
    LET ml == message.subs
        ci == ctx.company_info
        trigger == "i sell" \in ml \/ "i run" \in ml \/ "my business" \in ml
        potential_name == PotentialName(message.words, 1)
        name == IF ~Truthy(ci.name) /\ trigger /\ potential_name # ""
                THEN potential_name ELSE ci.name
        found_type == FirstMatch(business_types, ml, 1)
        description == IF ~Truthy(ci.description) /\ found_type # ""
                       THEN found_type ELSE ci.description
        found_audience == FirstMatch(audience_keywords, ml, 1)
        target_audience == IF ~Truthy(ci.target_audience) /\ found_audience # ""
                           THEN found_audience ELSE ci.target_audience
    IN [ctx |-> [ctx EXCEPT !.company_info = [ci EXCEPT
                    !.name = name, !.description = description,
                    !.target_audience = target_audience]],
        calls |-> 0, fails |-> 0]

---------------------------------------------------------------------------
(* agents/brand_analyzer.py                                                *)

\* _identify_missing_information: the missing categories, in order.
IdentifyMissingInformation(ctx) ==
    LET company == ctx.company_info
    IN (IF ~Truthy(company.name) \/ ~Truthy(company.industry)
            THEN <<"business_basics">> ELSE <<>>)
       \o (IF ~Truthy(company.target_audience) THEN <<"target_audience">> ELSE <<>>)
       \o (IF ~Truthy(company.brand_voice) /\ ~NonEmptyList(company.brand_values)
            THEN <<"brand_identity">> ELSE <<>>)
       \o (IF ~NonEmptyList(company.competitors)
            THEN <<"competitive_landscape">> ELSE <<>>)
       \o (IF ~Truthy(ctx.campaign_goals.primary_objective)
            THEN <<"goals_objectives">> ELSE <<>>)

\* _generate_discovery_questions: the number of questions returned.  The reply
\* holds 0, 1, 2 or 3 question sentences ("q0".."q3"); without any the whole
\* reply is the one question, more than two are cut to two; when the call
\* raises the one fallback question of the first missing category is used.
DiscoveryQuestionCount(reply) ==
    CASE reply = RAISE -> 1
      [] reply = EMPTY -> 1
      [] reply = "q0" -> 1
      [] reply = "q1" -> 1
      [] OTHER -> 2

UserTurns(ctx) == Cardinality({i \in 1..Len(ctx.messages) : ctx.messages[i].role = USER})

AnalyzeConversation(ctx, env) ==
    LET discovery_turns == UserTurns(ctx)
        missing_info == IdentifyMissingInformation(ctx)
        has_basic_info == Truthy(ctx.company_info.name)
                          \/ Truthy(ctx.company_info.description)
    IN IF missing_info # <<>> /\ discovery_turns < 3 /\ ~has_basic_info
       THEN Handled(ctx,
                AgentResponse(IF env.questions = EMPTY THEN "" ELSE "discovery_questions",
                              DiscoveryQuestionCount(env.questions), 0, DISCOVERY, TRUE),
                1, B2N(env.questions = RAISE), 0)
       ELSE IF env.summary # RAISE
       THEN Handled(ctx, AgentResponse(ReplyText(env.summary), 0, 0,
                                       STRATEGY_DEVELOPMENT, FALSE),
                    1, 0, 0)
       ELSE Handled(ctx, AgentResponse("brand_fallback", 0, 0, STRATEGY_DEVELOPMENT, FALSE),
                    1, 1, 0)

---------------------------------------------------------------------------
(* agents/strategy_agent.py                                                *)

HasSufficientInfoForStrategy(ctx) ==
    LET company == ctx.company_info
        goals == ctx.campaign_goals
    IN /\ Truthy(company.name)
       /\ (Truthy(company.industry) \/ Truthy(company.description))
       /\ Truthy(company.target_audience)
       /\ (Truthy(goals.primary_objective) \/ NonEmptyList(goals.target_platforms))

Min(a, b) == IF a < b THEN a ELSE b

\* _get_strategy_clarification_questions: len(questions[:2])
\* Clarification questions that are not cut to two.
StrategyClarificationQuestions_Uncut(ctx) ==
    B2N(~Truthy(ctx.campaign_goals.primary_objective))
    + B2N(~NonEmptyList(ctx.campaign_goals.target_platforms))
    + B2N(~Truthy(ctx.campaign_goals.budget_range))

StrategyClarificationQuestions(ctx) ==
    Min(2, B2N(~Truthy(ctx.campaign_goals.primary_objective))
           + B2N(~NonEmptyList(ctx.campaign_goals.target_platforms))
           + B2N(~Truthy(ctx.campaign_goals.budget_range)))

\* _get_default_content_pillars: four fixed pillars.
DefaultContentPillars == [kind |-> "default", n |-> 4]

\* A parser that returns the empty list for a reply without pillar headers.
ParseContentPillars_NoDefault(headers) ==
    [raised |-> FALSE, pillars |-> [kind |-> "parsed", n |-> headers]]

\* _parse_content_pillars: one pillar per pillar-header line of the reply.  With
\* no header line the method evaluates _get_default_content_pillars(context)
\* with no `context` in scope: the NameError leaves the method (its own except
\* clause raises it again) and _generate_content_pillars catches it.
ParseContentPillars(headers) ==
    IF headers > 0 THEN [raised |-> FALSE, pillars |-> [kind |-> "parsed", n |-> headers]]
    ELSE [raised |-> TRUE, pillars |-> DefaultContentPillars]

\* _generate_content_pillars
GenerateContentPillars(env) ==
    IF env.pillars = RAISE THEN DefaultContentPillars
    ELSE LET parsed == ParseContentPillars(env.pillar_headers)
         IN IF parsed.raised THEN DefaultContentPillars ELSE parsed.pillars

Narrative(outcome) == [kind |-> IF outcome = OK THEN "llm_reply" ELSE "fallback", n |-> 0]

\* A strategy step whose helpers let a raised call through to the outer
\* handler of develop_strategy.
DevelopStrategy_Propagating(ctx, env) ==
    IF ~HasSufficientInfoForStrategy(ctx)
    THEN Handled(ctx,
            AgentResponse("strategy_clarify", StrategyClarificationQuestions(ctx), 0, "", TRUE),
            0, 0, 0)
    ELSE IF RAISE \in {env.strategy, env.pillars, env.platform, env.kpi}
    THEN Handled(ctx, AgentResponse("strategy_error", 1, 0, "", TRUE), 1, 1, 0)
    ELSE
    LET written == {"campaign_strategy", "content_pillars", "platform_strategy",
                    "kpi_framework"}
        insights == [k \in DOMAIN ctx.extracted_insights \cup written |->
                        CASE k = "content_pillars" -> GenerateContentPillars(env)
                          [] k \in written \ {"content_pillars"} -> Narrative(OK)
                          [] OTHER -> ctx.extracted_insights[k]]
    IN Handled([ctx EXCEPT !.extracted_insights = insights],
               AgentResponse("strategy_summary", 0, 0, CONTENT_CREATION, FALSE), 4, 0, 0)

\* A strategy handler that advances without storing the content pillars.
DevelopStrategy_PillarsNotStored(ctx, env) ==
    IF ~HasSufficientInfoForStrategy(ctx)
    THEN Handled(ctx,
            AgentResponse("strategy_clarify", StrategyClarificationQuestions(ctx), 0, "", TRUE),
            0, 0, 0)
    ELSE
    LET written == {"campaign_strategy", "platform_strategy", "kpi_framework"}
        insights == [k \in DOMAIN ctx.extracted_insights \cup written |->
                        CASE k = "campaign_strategy" -> Narrative(env.strategy)
                          [] k = "platform_strategy" -> Narrative(env.platform)
                          [] k = "kpi_framework" -> Narrative(env.kpi)
                          [] OTHER -> ctx.extracted_insights[k]]
    IN Handled([ctx EXCEPT !.extracted_insights = insights],
               AgentResponse("strategy_summary", 0, 0, CONTENT_CREATION, FALSE),
               4,
               B2N(env.strategy = RAISE) + B2N(env.pillars = RAISE)
                  + B2N(env.platform = RAISE) + B2N(env.kpi = RAISE),
               0)

DevelopStrategy(ctx, env) ==
    IF ~HasSufficientInfoForStrategy(ctx)
    THEN Handled(ctx,
            AgentResponse("strategy_clarify", StrategyClarificationQuestions(ctx), 0, "", TRUE),
            0, 0, 0)
    ELSE
    LET written == {"campaign_strategy", "content_pillars", "platform_strategy",
                    "kpi_framework"}
        insights == [k \in DOMAIN ctx.extracted_insights \cup written |->
                        CASE k = "campaign_strategy" -> Narrative(env.strategy)
                          [] k = "content_pillars" -> GenerateContentPillars(env)
                          [] k = "platform_strategy" -> Narrative(env.platform)
                          [] k = "kpi_framework" -> Narrative(env.kpi)
                          [] OTHER -> ctx.extracted_insights[k]]
    IN Handled([ctx EXCEPT !.extracted_insights = insights],
               AgentResponse("strategy_summary", 0, 0, CONTENT_CREATION, FALSE),
               4,
               B2N(env.strategy = RAISE) + B2N(env.pillars = RAISE)
                  + B2N(env.platform = RAISE) + B2N(env.kpi = RAISE),
               0)

---------------------------------------------------------------------------
(* agents/content_creator.py                                               *)

\* A foundation test that is satisfied by either insight.
HasStrategyFoundation_Either(ctx) ==
    {"campaign_strategy", "content_pillars"} \cap DOMAIN ctx.extracted_insights # {}

HasStrategyFoundation(ctx) ==
    {"campaign_strategy", "content_pillars"} \subseteq DOMAIN ctx.extracted_insights

\* create_single_post: one generation request; a reply with a visual/image
\* section gets one _generate_visual_concept call.  A raised generation is
\* replaced by the static fallback content, a raised visual call by the
\* prompt as parsed; of an empty reply nothing is parsed and the content is
\* the reply.  failed: the coroutine raised instead of returning a post.
\* A post task that lets a raised generation request out.
CreateSinglePost_Raising(platform, reply, visual) ==
    IF reply = RAISE
    THEN [post |-> [platform |-> platform, content |-> "", image_prompt |-> ""],
          calls |-> 1, fails |-> 1, failed |-> TRUE]
    ELSE [post |-> [platform |-> platform, content |-> "generated", image_prompt |-> ""],
          calls |-> 1, fails |-> 0, failed |-> FALSE]

\* A post task that answers a raised generation request with a post for
\* facebook.
CreateSinglePost_WrongPlatform(platform, reply, visual) ==
    IF reply = RAISE
    THEN [post |-> [platform |-> "facebook", content |-> "fallback_content",
                    image_prompt |-> ""],
          calls |-> 1, fails |-> 1, failed |-> FALSE]
    ELSE [post |-> [platform |-> platform, content |-> "generated", image_prompt |-> ""],
          calls |-> 1, fails |-> 0, failed |-> FALSE]

CreateSinglePost(platform, reply, visual) ==
    IF reply = RAISE
    THEN [post |-> [platform |-> platform, content |-> "fallback_content",
                    image_prompt |-> ""],
          calls |-> 1, fails |-> 1, failed |-> FALSE]
    ELSE IF reply = EMPTY
    THEN [post |-> [platform |-> platform, content |-> "", image_prompt |-> ""],
          calls |-> 1, fails |-> 0, failed |-> FALSE]
    ELSE IF reply = "plain"
    THEN [post |-> [platform |-> platform, content |-> "generated", image_prompt |-> ""],
          calls |-> 1, fails |-> 0, failed |-> FALSE]
    ELSE [post |-> [platform |-> platform, content |-> "generated",
                    image_prompt |-> IF visual = OK THEN "enhanced" ELSE "parsed"],
          calls |-> 2, fails |-> B2N(visual = RAISE), failed |-> FALSE]

DefaultPlatforms == <<"facebook", "instagram">>

RECURSIVE SumOver(_, _)
SumOver(f, n) == IF n = 0 THEN 0 ELSE f[n] + SumOver(f, n - 1)

\* _generate_platform_posts, _add_visual_concepts, _develop_hashtag_strategy
\* and the assembly of the CampaignOutput.
\* The results of asyncio.gather that _generate_platform_posts keeps.
IsSocialPost(result) == ~result.failed

\* A content handler without the _add_visual_concepts pass.
CreateCampaignContent_NoSecondPass(ctx, env) ==
    IF ~HasStrategyFoundation(ctx)
    THEN Handled(ctx, AgentResponse("need_foundation", 0, 0, "", TRUE), 0, 0, 0)
    ELSE
    LET content_pillars == IF "content_pillars" \in DOMAIN ctx.extracted_insights
                           THEN ctx.extracted_insights["content_pillars"]
                           ELSE [kind |-> "default", n |-> 0]
        platforms == IF NonEmptyList(ctx.campaign_goals.target_platforms)
                     THEN ctx.campaign_goals.target_platforms ELSE DefaultPlatforms
        per_platform == Min(content_pillars.n, 4)
        ntasks == Len(platforms) * per_platform
        results == [i \in 1..ntasks |->
                       CreateSinglePost(platforms[((i - 1) \div per_platform) + 1],
                                        env.post[i], env.visual1[i])]
        returned == SelectSeq(results, IsSocialPost)
        nposts == Len(returned)
        posts == [i \in 1..nposts |-> returned[i].post]
        calls == SumOver([i \in 1..ntasks |-> results[i].calls], ntasks) + 1
        fails == SumOver([i \in 1..ntasks |-> results[i].fails], ntasks)
                 + B2N(env.hashtag = RAISE)
        campaign_output == [ready |-> TRUE, posts |-> posts,
                            hashtag_strategy |-> Narrative(env.hashtag).kind]
    IN [Handled([ctx EXCEPT !.campaign_output = campaign_output],
                AgentResponse("content_summary", 0, 0, REVIEW_REFINEMENT, FALSE),
                calls, fails, ntasks)
           EXCEPT !.visual_calls = [i \in 1..nposts |-> returned[i].calls - 1]]

\* A content handler that makes posts for the first three pillars only.
CreateCampaignContent_ThreePillars(ctx, env) ==
    IF ~HasStrategyFoundation(ctx)
    THEN Handled(ctx, AgentResponse("need_foundation", 0, 0, "", TRUE), 0, 0, 0)
    ELSE
    LET content_pillars == IF "content_pillars" \in DOMAIN ctx.extracted_insights
                           THEN ctx.extracted_insights["content_pillars"]
                           ELSE [kind |-> "default", n |-> 0]
        platforms == IF NonEmptyList(ctx.campaign_goals.target_platforms)
                     THEN ctx.campaign_goals.target_platforms ELSE DefaultPlatforms
        per_platform == Min(content_pillars.n, 3)
        ntasks == Len(platforms) * per_platform
        results == [i \in 1..ntasks |->
                       CreateSinglePost(platforms[((i - 1) \div per_platform) + 1],
                                        env.post[i], env.visual1[i])]
        returned == SelectSeq(results, IsSocialPost)
        nposts == Len(returned)
        kept == [i \in 1..nposts |-> returned[i].post]
        enrich == [i \in 1..nposts |-> Truthy(kept[i].image_prompt)]
        posts == [i \in 1..nposts |->
                     IF enrich[i] /\ env.visual2[i] = OK
                     THEN [kept[i] EXCEPT !.image_prompt = "enhanced"] ELSE kept[i]]
        calls == SumOver([i \in 1..ntasks |-> results[i].calls], ntasks)
                 + SumOver([i \in 1..nposts |-> B2N(enrich[i])], nposts) + 1
        fails == SumOver([i \in 1..ntasks |-> results[i].fails], ntasks)
                 + SumOver([i \in 1..nposts |-> B2N(enrich[i] /\ env.visual2[i] = RAISE)],
                           nposts)
                 + B2N(env.hashtag = RAISE)
        campaign_output == [ready |-> TRUE, posts |-> posts,
                            hashtag_strategy |-> Narrative(env.hashtag).kind]
    IN [Handled([ctx EXCEPT !.campaign_output = campaign_output],
                AgentResponse("content_summary", 0, 0, REVIEW_REFINEMENT, FALSE),
                calls, fails, ntasks)
           EXCEPT !.visual_calls = [i \in 1..nposts |->
                                       (returned[i].calls - 1) + B2N(enrich[i])]]

CreateCampaignContent(ctx, env) ==
    IF ~HasStrategyFoundation(ctx)
    THEN Handled(ctx, AgentResponse("need_foundation", 0, 0, "", TRUE), 0, 0, 0)
    ELSE
    LET content_pillars == IF "content_pillars" \in DOMAIN ctx.extracted_insights
                           THEN ctx.extracted_insights["content_pillars"]
                           ELSE [kind |-> "default", n |-> 0]
        platforms == IF NonEmptyList(ctx.campaign_goals.target_platforms)
                     THEN ctx.campaign_goals.target_platforms ELSE DefaultPlatforms
        per_platform == Min(content_pillars.n, 4)
        ntasks == Len(platforms) * per_platform
        results == [i \in 1..ntasks |->
                       CreateSinglePost(platforms[((i - 1) \div per_platform) + 1],
                                        env.post[i], env.visual1[i])]
        returned == SelectSeq(results, IsSocialPost)
        nposts == Len(returned)
        kept == [i \in 1..nposts |-> returned[i].post]
        enrich == [i \in 1..nposts |-> Truthy(kept[i].image_prompt)]
        posts == [i \in 1..nposts |->
                     IF enrich[i] /\ env.visual2[i] = OK
                     THEN [kept[i] EXCEPT !.image_prompt = "enhanced"] ELSE kept[i]]
        calls == SumOver([i \in 1..ntasks |-> results[i].calls], ntasks)
                 + SumOver([i \in 1..nposts |-> B2N(enrich[i])], nposts) + 1
        fails == SumOver([i \in 1..ntasks |-> results[i].fails], ntasks)
                 + SumOver([i \in 1..nposts |-> B2N(enrich[i] /\ env.visual2[i] = RAISE)],
                           nposts)
                 + B2N(env.hashtag = RAISE)
        campaign_output == [ready |-> TRUE, posts |-> posts,
                            hashtag_strategy |-> Narrative(env.hashtag).kind]
    IN [Handled([ctx EXCEPT !.campaign_output = campaign_output],
                AgentResponse("content_summary", 0, 0, REVIEW_REFINEMENT, FALSE),
                calls, fails, ntasks)
           EXCEPT !.visual_calls = [i \in 1..nposts |->
                                       (returned[i].calls - 1) + B2N(enrich[i])]]

---------------------------------------------------------------------------
(* agents/orchestrator.py: stage handlers                                  *)

GreetingText == "greeting"

\* The content of a user message, which the code stores and never reads back.
UserText == "user_text"

\* _handle_greeting_stage: with a user message last in the history, up to two
\* attempts to generate campaign concepts; all three outcomes move on to
\* strategy_development.
\* A greeting handler that hands over to discovery, as the demo orchestrator does.
HandleGreetingStage_ToDiscovery(ctx, env) ==
    Handled(ctx, AgentResponse(GreetingText, 0, 0, DISCOVERY, FALSE),
            1, B2N(env.greet1 = RAISE), 0)

\* A greeting handler that stays in greeting when both attempts fail.
HandleGreetingStage_StayOnFailure(ctx, env) ==
    IF env.greet1 # RAISE
    THEN Handled(ctx, AgentResponse(ReplyText(env.greet1), 0, 0,
                                    STRATEGY_DEVELOPMENT, FALSE), 1, 0, 0)
    ELSE IF env.greet2 # RAISE
    THEN Handled(ctx, AgentResponse(ReplyText(env.greet2), 0, 0,
                                    STRATEGY_DEVELOPMENT, FALSE), 2, 1, 0)
    ELSE Handled(ctx, AgentResponse("greeting_error", 0, 0, "", TRUE), 2, 2, 0)

\* A greeting handler that falls back to discovery when both attempts fail.
HandleGreetingStage_FailureToDiscovery(ctx, env) ==
    LET n == Len(ctx.messages)
    IN IF n > 0 /\ ctx.messages[n].role = USER
       THEN IF env.greet1 # RAISE
            THEN Handled(ctx, AgentResponse(ReplyText(env.greet1), 0, 0,
                                            STRATEGY_DEVELOPMENT, FALSE),
                         1, 0, 0)
            ELSE IF env.greet2 # RAISE
            THEN Handled(ctx, AgentResponse(ReplyText(env.greet2), 0, 0,
                                            STRATEGY_DEVELOPMENT, FALSE),
                         2, 1, 0)
            ELSE Handled(ctx,
                         AgentResponse("greeting_error", 0, 0, DISCOVERY, FALSE),
                         2, 2, 0)
       ELSE Handled(ctx, AgentResponse(GreetingText, 0, 0, "", TRUE), 0, 0, 0)

HandleGreetingStage(ctx, env) ==
    LET n == Len(ctx.messages)
    IN IF n > 0 /\ ctx.messages[n].role = USER
       THEN IF env.greet1 # RAISE
            THEN Handled(ctx, AgentResponse(ReplyText(env.greet1), 0, 0,
                                            STRATEGY_DEVELOPMENT, FALSE),
                         1, 0, 0)
            ELSE IF env.greet2 # RAISE
            THEN Handled(ctx, AgentResponse(ReplyText(env.greet2), 0, 0,
                                            STRATEGY_DEVELOPMENT, FALSE),
                         2, 1, 0)
            ELSE Handled(ctx,
                         AgentResponse("greeting_error", 0, 0, STRATEGY_DEVELOPMENT, FALSE),
                         2, 2, 0)
       ELSE Handled(ctx, AgentResponse(GreetingText, 0, 0, "", TRUE), 0, 0, 0)

\* A review handler whose output test is inverted.
HandleReviewStage_Inverted(ctx) ==
    IF ctx.campaign_output.ready
    THEN Handled(ctx, AgentResponse("review_pending", 0, 0, CONTENT_CREATION, FALSE), 0, 0, 0)
    ELSE Handled(ctx, AgentResponse("review_message", 0, 4, FINALIZATION, TRUE), 0, 0, 0)

HandleReviewStage(ctx) ==
    IF ~ctx.campaign_output.ready
    THEN Handled(ctx, AgentResponse("review_pending", 0, 0, CONTENT_CREATION, FALSE), 0, 0, 0)
    ELSE Handled(ctx, AgentResponse("review_message", 0, 4, FINALIZATION, TRUE), 0, 0, 0)

\* A finalization handler that reopens the review.
HandleFinalizationStage_BackToReview(ctx) ==
    IF ~ctx.campaign_output.ready
    THEN Handled(ctx, AgentResponse("final_pending", 0, 0, CONTENT_CREATION, FALSE), 0, 0, 0)
    ELSE Handled(ctx, AgentResponse("final_summary", 0, 0, REVIEW_REFINEMENT, FALSE), 0, 0, 0)

\* A finalization handler that hands the campaign over and drops the output.
HandleFinalizationStage_ClearsOutput(ctx) ==
    IF ~ctx.campaign_output.ready
    THEN Handled(ctx, AgentResponse("final_pending", 0, 0, CONTENT_CREATION, FALSE), 0, 0, 0)
    ELSE Handled([ctx EXCEPT !.campaign_output = NoOutput],
                 AgentResponse("final_summary", 0, 0, "", FALSE), 0, 0, 0)

HandleFinalizationStage(ctx) ==
    IF ~ctx.campaign_output.ready
    THEN Handled(ctx, AgentResponse("final_pending", 0, 0, CONTENT_CREATION, FALSE), 0, 0, 0)
    ELSE Handled(ctx, AgentResponse("final_summary", 0, 0, "", FALSE), 0, 0, 0)

\* _process_conversation_stage: the handler of the current stage.  No handler
\* lets an exception out (each catches its own upstream failures), so the
\* except clause of the dispatcher is never entered.
ProcessConversationStage(ctx, env) ==
    LET stage == ctx.current_stage
    IN CASE stage = GREETING -> HandleGreetingStage(ctx, env)
         [] stage = DISCOVERY -> AnalyzeConversation(ctx, env)
         [] stage = BRAND_ANALYSIS -> AnalyzeConversation(ctx, env)
         [] stage = STRATEGY_DEVELOPMENT -> DevelopStrategy(ctx, env)
         [] stage = CONTENT_CREATION -> CreateCampaignContent(ctx, env)
         [] stage = REVIEW_REFINEMENT -> HandleReviewStage(ctx)
         [] stage = FINALIZATION -> HandleFinalizationStage(ctx)

\* The comprehensive-info branch of continue_conversation: the stage is forced
\* and the acknowledgement is generated, with a static fallback.
ForceStrategy(ctx, env) ==
    Handled([ctx EXCEPT !.current_stage = STRATEGY_DEVELOPMENT],
            AgentResponse(IF env.ack # RAISE THEN ReplyText(env.ack) ELSE "ack_fallback",
                          0, 0, STRATEGY_DEVELOPMENT, FALSE),
            1, B2N(env.ack = RAISE), 0)

\* The stage after the response: next_stage when the handler proposed one.
UpdateStage(ctx, resp) ==
    IF resp.next_stage # "" THEN [ctx EXCEPT !.current_stage = resp.next_stage] ELSE ctx

\* The body of continue_conversation for an existing session.
ContinueTurn(ctx, message, env, now) ==
    LET c1 == AddMessage(ctx, USER, UserText, now)
        x == ExtractInformation(c1, message, env)
        comprehensive == UserProvidedComprehensiveInfo(message)
        h == IF comprehensive THEN ForceStrategy(x.ctx, env)
             ELSE ProcessConversationStage(x.ctx, env)
        c2 == AddMessage(h.ctx, ASSISTANT, h.resp.message, now + 1)
        c3 == UpdateStage(c2, h.resp)
    IN [ctx |-> [c3 EXCEPT !.last_updated = now + 2],
        resp |-> h.resp,
        handler |-> IF comprehensive THEN "none" ELSE ctx.current_stage,
        comprehensive |-> comprehensive,
        calls |-> x.calls + h.calls, fails |-> x.fails + h.fails, tasks |-> h.tasks,
        visual_calls |-> h.visual_calls]

---------------------------------------------------------------------------
(* agents/orchestrator.py: the calls                                       *)

\* What a call returned, with the fields a call does not return left empty.
NoCall ==
    [op |-> "none", session_id |-> "", text |-> "", status |-> "", error |-> "",
     message |-> "", stage |-> "", stage_before |-> "", questions |-> 0,
     requires_clarification |-> FALSE, comprehensive |-> FALSE, handler |-> "",
     calls |-> 0, fails |-> 0, tasks |-> 0, task_replies |-> <<>>,
     visual_calls |-> <<>>, pillar_reply |-> [outcome |-> OK, headers |-> 0],
     result |-> FALSE]

\* The context start_conversation builds.
NewContext(now) ==
    [current_stage |-> GREETING,
     messages |-> <<>>,
     company_info |->
        [name |-> "ProteinRX", industry |-> "fitness_wellness",
         description |-> "Health & Fitness - Protein Smoothie Drinks",
         target_audience |-> "Gym-goers and fitness enthusiasts (20-45 years old)",
         brand_voice |-> "Luxury and strong",
         brand_values |-> <<>>,
         unique_selling_points |-> <<"Convenient canned format for accessibility",
                                     "Available everywhere">>,
         competitors |-> <<"Traditional protein powder brands">>],
     campaign_goals |->
        [primary_objective |-> "brand_awareness", target_platforms |-> <<"instagram">>,
         budget_range |-> ""],
     extracted_insights |-> [k \in {"brand_assets"} |-> [kind |-> "assets", n |-> 0]],
     campaign_output |-> NoOutput,
     created_at |-> now,
     last_updated |-> now]

\* A start that stores the context and returns without recording the greeting.
StartConversation_NoGreeting(session_id) ==
    /\ session_id \notin DOMAIN active_contexts
    /\ active_contexts' =
          [s \in DOMAIN active_contexts \cup {session_id} |->
              IF s = session_id THEN NewContext(clock) ELSE active_contexts[s]]
    /\ last' = [NoCall EXCEPT !.op = "start", !.session_id = session_id,
                              !.message = GreetingText,
                              !.stage = GREETING, !.status = "active"]
    /\ clock' = clock + 2

StartConversation(session_id) ==
    /\ session_id \notin DOMAIN active_contexts
    /\ LET context == AddMessage(NewContext(clock), ASSISTANT, GreetingText, clock + 1)
       IN /\ active_contexts' =
                [s \in DOMAIN active_contexts \cup {session_id} |->
                    IF s = session_id THEN context ELSE active_contexts[s]]
          /\ last' = [NoCall EXCEPT !.op = "start", !.session_id = session_id,
                                    !.message = GreetingText,
                                    !.stage = GREETING, !.status = "active"]
    /\ clock' = clock + 2

\* A lookup that creates the missing session, as a defaultdict would.
ContinueUnknown_Creates(session_id, message) ==
    /\ session_id \notin DOMAIN active_contexts
    /\ active_contexts' = [s \in DOMAIN active_contexts \cup {session_id} |->
                              IF s = session_id THEN NewContext(clock)
                              ELSE active_contexts[s]]
    /\ last' = [NoCall EXCEPT !.op = "continue", !.session_id = session_id,
                              !.text = message.id,
                              !.error = "Session not found", !.status = "error"]
    /\ UNCHANGED clock

ContinueUnknown(session_id, message) ==
    /\ session_id \notin DOMAIN active_contexts
    /\ last' = [NoCall EXCEPT !.op = "continue", !.session_id = session_id,
                              !.text = message.id,
                              !.error = "Session not found", !.status = "error"]
    /\ UNCHANGED <<active_contexts, clock>>

\* A turn that stamps last_updated on every session of the store.
ContinueConversation_TouchesAll(session_id, message, env) ==
    /\ session_id \in DOMAIN active_contexts
    /\ LET t == ContinueTurn(active_contexts[session_id], message, env, clock)
       IN /\ active_contexts' =
                [s \in DOMAIN active_contexts |->
                    IF s = session_id THEN t.ctx
                    ELSE [active_contexts[s] EXCEPT !.last_updated = clock + 2]]
          /\ last' = [NoCall EXCEPT
                        !.op = "continue", !.session_id = session_id,
                        !.text = message.id, !.status = "active",
                        !.message = t.resp.message,
                        !.stage = t.ctx.current_stage,
                        !.stage_before = active_contexts[session_id].current_stage,
                        !.questions = t.resp.questions,
                        !.requires_clarification = t.resp.requires_clarification,
                        !.comprehensive = t.comprehensive, !.handler = t.handler,
                        !.calls = t.calls, !.fails = t.fails, !.tasks = t.tasks,
                        !.task_replies = [i \in 1..t.tasks |-> env.post[i]],
                        !.visual_calls = t.visual_calls,
                        !.pillar_reply = [outcome |-> env.pillars,
                                          headers |-> env.pillar_headers]]
    /\ clock' = clock + 3

\* A turn that reports an upstream failure to the caller as an error.
ContinueConversation_ErrorOnFailure(session_id, message, env) ==
    /\ session_id \in DOMAIN active_contexts
    /\ LET t == ContinueTurn(active_contexts[session_id], message, env, clock)
       IN /\ active_contexts' = [active_contexts EXCEPT ![session_id] = t.ctx]
          /\ last' = [NoCall EXCEPT
                        !.op = "continue", !.session_id = session_id,
                        !.text = message.id,
                        !.status = IF t.fails > 0 THEN "error" ELSE "active",
                        !.message = t.resp.message,
                        !.stage = t.ctx.current_stage,
                        !.stage_before = active_contexts[session_id].current_stage,
                        !.comprehensive = t.comprehensive, !.handler = t.handler,
                        !.calls = t.calls, !.fails = t.fails, !.tasks = t.tasks]
    /\ clock' = clock + 3

ContinueConversation(session_id, message, env) ==
    /\ session_id \in DOMAIN active_contexts
    /\ LET t == ContinueTurn(active_contexts[session_id], message, env, clock)
       IN /\ active_contexts' = [active_contexts EXCEPT ![session_id] = t.ctx]
          /\ last' = [NoCall EXCEPT
                        !.op = "continue", !.session_id = session_id,
                        !.text = message.id, !.status = "active",
                        !.message = t.resp.message,
                        !.stage = t.ctx.current_stage,
                        !.stage_before = active_contexts[session_id].current_stage,
                        !.questions = t.resp.questions,
                        !.requires_clarification = t.resp.requires_clarification,
                        !.comprehensive = t.comprehensive, !.handler = t.handler,
                        !.calls = t.calls, !.fails = t.fails, !.tasks = t.tasks,
                        !.task_replies = [i \in 1..t.tasks |-> env.post[i]],
                        !.visual_calls = t.visual_calls,
                        !.pillar_reply = [outcome |-> env.pillars,
                                          headers |-> env.pillar_headers]]
    /\ clock' = clock + 3

GetConversationSummary(session_id) ==
    /\ last' = IF session_id \notin DOMAIN active_contexts
               THEN [NoCall EXCEPT !.op = "summary", !.session_id = session_id,
                                   !.error = "Session not found"]
               ELSE [NoCall EXCEPT !.op = "summary", !.session_id = session_id,
                                   !.stage = active_contexts[session_id].current_stage]
    /\ UNCHANGED <<active_contexts, clock>>

\* An output accessor that only tests whether the session exists.
GetCampaignOutput_AnySession(session_id) ==
    /\ last' = IF session_id \notin DOMAIN active_contexts
               THEN [NoCall EXCEPT !.op = "output", !.session_id = session_id,
                                   !.error = "Campaign not ready or session not found"]
               ELSE [NoCall EXCEPT !.op = "output", !.session_id = session_id,
                                   !.result = TRUE]
    /\ UNCHANGED <<active_contexts, clock>>

GetCampaignOutput(session_id) ==
    /\ last' = IF session_id \notin DOMAIN active_contexts
                  \/ ~active_contexts[session_id].campaign_output.ready
               THEN [NoCall EXCEPT !.op = "output", !.session_id = session_id,
                                   !.error = "Campaign not ready or session not found"]
               ELSE [NoCall EXCEPT !.op = "output", !.session_id = session_id,
                                   !.result = TRUE]
    /\ UNCHANGED <<active_contexts, clock>>

\* A close that reports success whether or not the session existed.
CloseSession_ReturnsTrue(session_id) ==
    /\ active_contexts' =
          [s \in DOMAIN active_contexts \ {session_id} |-> active_contexts[s]]
    /\ last' = [NoCall EXCEPT !.op = "close", !.session_id = session_id, !.result = TRUE]
    /\ UNCHANGED clock

CloseSession(session_id) ==
    /\ IF session_id \in DOMAIN active_contexts
       THEN /\ active_contexts' =
                  [s \in DOMAIN active_contexts \ {session_id} |-> active_contexts[s]]
            /\ last' = [NoCall EXCEPT !.op = "close", !.session_id = session_id,
                                      !.result = TRUE]
       ELSE /\ UNCHANGED active_contexts
            /\ last' = [NoCall EXCEPT !.op = "close", !.session_id = session_id,
                                      !.result = FALSE]
    /\ UNCHANGED clock

---------------------------------------------------------------------------
(* The orchestrator as the program runs it: sessions come from             *)
(* start_conversation only, calls are made one after the other.            *)

\* The upstream outcomes that matter to a turn in `stage`.
TurnEnvs(stage, comprehensive) ==
    IF comprehensive
    THEN {[AllOk EXCEPT !.parse = a, !.ack = b] :
             a \in Outcome, b \in Outcome \cup {EMPTY}}
    ELSE CASE stage = GREETING ->
                {AllOk, [AllOk EXCEPT !.greet1 = EMPTY], [AllOk EXCEPT !.greet1 = RAISE],
                 [AllOk EXCEPT !.greet1 = RAISE, !.greet2 = EMPTY],
                 [AllOk EXCEPT !.greet1 = RAISE, !.greet2 = RAISE]}
           [] stage \in {DISCOVERY, BRAND_ANALYSIS} ->
                {[AllOk EXCEPT !.questions = q] : q \in {RAISE, EMPTY, "q0", "q1", "q3"}}
                \cup {[AllOk EXCEPT !.summary = r] : r \in {RAISE, EMPTY}}
           [] stage = STRATEGY_DEVELOPMENT ->
                {AllOk, [AllOk EXCEPT !.pillar_headers = 0],
                 [AllOk EXCEPT !.pillar_headers = 2],
                 [AllOk EXCEPT !.strategy = RAISE], [AllOk EXCEPT !.pillars = RAISE],
                 [AllOk EXCEPT !.platform = RAISE], [AllOk EXCEPT !.kpi = RAISE],
                 [AllOk EXCEPT !.strategy = RAISE, !.pillars = RAISE,
                               !.platform = RAISE, !.kpi = RAISE]}
           [] stage = CONTENT_CREATION ->
                {AllOk,
                 [AllOk EXCEPT !.post = [i \in TaskIds |-> "image"]],
                 [AllOk EXCEPT !.post = [i \in TaskIds |-> IF i = 1 THEN RAISE ELSE "image"],
                               !.visual2 = [i \in TaskIds |-> RAISE],
                               !.hashtag = RAISE],
                 [AllOk EXCEPT !.post = [i \in TaskIds |->
                                           CASE i = 1 -> "image" [] i = 2 -> EMPTY
                                             [] i = 3 -> RAISE [] OTHER -> "plain"],
                               !.visual1 = [i \in TaskIds |-> RAISE],
                               !.visual2 = [i \in TaskIds |-> RAISE]]}
           [] OTHER -> {AllOk}

\* An ImageService without an API key that has served no request.
NoImageService ==
    [api_key |-> "", api_url |-> "", requests |-> 0, calls |-> <<>>,
     result |-> "", raised |-> FALSE]

\* A MemoryManager over an empty storage directory that has served no call.
NoMemoryManager ==
    [memory_cache |-> [s \in {} |-> 0], files |-> [s \in {} |-> 0],
     op |-> "none", session_id |-> "", returned |-> FALSE]

\* What a call on the orchestrator leaves alone.
services == <<in_flight, image_service, memory_manager>>

Init ==
    /\ active_contexts = [s \in {} |-> NewContext(0)]
    /\ clock = 0
    /\ last = NoCall
    /\ in_flight = <<>>
    /\ image_service = NoImageService
    /\ memory_manager = NoMemoryManager

\* One continue_conversation call on an existing session, with every upstream
\* outcome that matters in its stage.
Continue(session_id, message) ==
    /\ session_id \in DOMAIN active_contexts
    /\ \E env \in TurnEnvs(active_contexts[session_id].current_stage,
                           UserProvidedComprehensiveInfo(message)) :
          ContinueConversation(session_id, message, env)

Next ==
    \/ \E session_id \in SessionIds :
          clock + 2 <= MaxClock /\ StartConversation(session_id)
          /\ UNCHANGED services
    \/ \E session_id \in SessionIds, message \in Texts :
          ContinueUnknown(session_id, message) /\ UNCHANGED services
    \/ \E session_id \in SessionIds, message \in Texts :
          clock + 3 <= MaxClock /\ Continue(session_id, message)
          /\ UNCHANGED services
    \/ \E session_id \in SessionIds :
          GetConversationSummary(session_id) /\ UNCHANGED services
    \/ \E session_id \in SessionIds :
          GetCampaignOutput(session_id) /\ UNCHANGED services
    \/ \E session_id \in SessionIds :
          CloseSession(session_id) /\ UNCHANGED services

Spec == Init /\ [][Next]_vars

---------------------------------------------------------------------------
(* One conversation from start_conversation through MaxTurns turns.        *)

TheSession == "s1"

NextSession ==
    \/ StartConversation(TheSession) /\ UNCHANGED services
    \/ \E message \in Texts :
          clock < 2 + 3 * MaxTurns /\ Continue(TheSession, message)
          /\ UNCHANGED services

SpecSession == Init /\ [][NextSession]_vars

\* A conversation of messages that are not comprehensive, so that the history
\* grows by two entries a turn.
ShortTexts == {TextIdea, TextHundred}

NextHistory ==
    \/ StartConversation(TheSession) /\ UNCHANGED services
    \/ \E message \in ShortTexts :
          clock < 2 + 3 * MaxHistoryTurns /\ Continue(TheSession, message)
          /\ UNCHANGED services

SpecHistory == Init /\ [][NextHistory]_vars

\* The contexts of tests/test_agents.py: sample_context and its variants with
\* a field cleared, at any stage, with or without the insights and the output
\* of the later stages, placed in active_contexts directly.
SampleCompany ==
    [name |-> "Test Restaurant", industry |-> "food_beverage",
     description |-> "Modern Malaysian cuisine restaurant",
     target_audience |-> "Young professionals aged 25-40",
     brand_voice |-> "", brand_values |-> <<>>,
     unique_selling_points |-> <<>>, competitors |-> <<>>]

EmptyCompany ==
    [name |-> "", industry |-> "", description |-> "", target_audience |-> "",
     brand_voice |-> "", brand_values |-> <<>>,
     unique_selling_points |-> <<>>, competitors |-> <<>>]

SampleGoals ==
    [primary_objective |-> "brand_awareness",
     target_platforms |-> <<"instagram", "facebook">>, budget_range |-> ""]

EmptyGoals == [primary_objective |-> "", target_platforms |-> <<>>, budget_range |-> ""]

\* Goals with the budget stated as well.
FullGoals == [SampleGoals EXCEPT !.budget_range = "$50/day"]

FixtureInsights ==
    {[k \in keys |-> IF k = "content_pillars" THEN DefaultContentPillars
                     ELSE Narrative(OK)] :
        keys \in {{}, {"campaign_strategy"}, {"campaign_strategy", "content_pillars"}}}
    \cup {[k \in {"campaign_strategy", "content_pillars"} |->
              IF k = "content_pillars" THEN [kind |-> "parsed", n |-> 5]
              ELSE Narrative(OK)]}

FixtureHistory(user_turns) ==
    [i \in 1..(2 * user_turns) |->
        [role |-> IF i % 2 = 1 THEN USER ELSE ASSISTANT,
         content |-> IF i % 2 = 1 THEN UserText ELSE "llm_reply",
         timestamp |-> i]]

FixtureContexts ==
    {[current_stage |-> stage, messages |-> FixtureHistory(user_turns),
      company_info |-> company, campaign_goals |-> goals,
      extracted_insights |-> insights,
      campaign_output |-> IF ready
                          THEN [ready |-> TRUE, posts |-> <<>>,
                                hashtag_strategy |-> "llm_reply"]
                          ELSE NoOutput,
      created_at |-> 0, last_updated |-> 0] :
        stage \in Stages, user_turns \in {0, 2},
        company \in {SampleCompany, [SampleCompany EXCEPT !.name = ""],
                     [SampleCompany EXCEPT !.target_audience = ""], EmptyCompany},
        goals \in {SampleGoals, EmptyGoals, FullGoals},
        insights \in FixtureInsights, ready \in BOOLEAN}

InitFixture ==
    /\ \E context \in FixtureContexts :
          active_contexts = [s \in {TheSession} |-> context]
    /\ clock = 5
    /\ last = NoCall
    /\ in_flight = <<>>
    /\ image_service = NoImageService
    /\ memory_manager = NoMemoryManager

NextFixture ==
    \E message \in Texts :
        clock < 5 + 3 * MaxFixtureTurns /\ Continue(TheSession, message)
        /\ UNCHANGED services

SpecFixture == InitFixture /\ [][NextFixture]_vars

\* A conversation in which the user names the business, as the first input of
\* test_full_conversation_flow does.
NamingTexts == {TextRun, TextNumbered, TextIdea}

NextName ==
    \/ StartConversation(TheSession) /\ UNCHANGED services
    \/ \E message \in NamingTexts :
          clock < 2 + 3 * MaxNameTurns /\ Continue(TheSession, message)
          /\ UNCHANGED services

SpecName == Init /\ [][NextName]_vars

---------------------------------------------------------------------------
(* One conversation of up to MaxLongTurns turns, each turn carrying the    *)
(* short campaign idea or the numbered (comprehensive) message.            *)

LongTexts == {TextIdea, TextNumbered}

\* Every upstream request of the turn raises.
AllRaise ==
    [parse |-> RAISE, ack |-> RAISE, greet1 |-> RAISE, greet2 |-> RAISE,
     questions |-> RAISE, summary |-> RAISE,
     strategy |-> RAISE, pillars |-> RAISE, pillar_headers |-> 0,
     platform |-> RAISE, kpi |-> RAISE,
     post |-> [i \in TaskIds |-> RAISE], visual1 |-> [i \in TaskIds |-> RAISE],
     visual2 |-> [i \in TaskIds |-> RAISE], hashtag |-> RAISE]

\* In a long conversation the upstream service is up for a whole turn or down
\* for a whole turn.
LongEnvs == {AllOk, AllRaise}

NextLong ==
    \/ StartConversation(TheSession) /\ UNCHANGED services
    \/ \E message \in LongTexts, env \in LongEnvs :
          /\ clock < 2 + 3 * MaxLongTurns
          /\ ContinueConversation(TheSession, message, env)
          /\ UNCHANGED services

SpecLong == Init /\ [][NextLong]_vars

---------------------------------------------------------------------------
(* services/image_service.py.  A provider's answer to a request is an      *)
(* input of the request; calls is the sequence of providers the request    *)
(* called, each with its answer; "" is None.                               *)

\* The number of generate_image requests served.
MaxImageRequests == 4

GeminiAnswers == {"image", "no_image", "http_error", "raise"}
PollinationsAnswers == {"image", "http_error", "raise"}
CustomApiAnswers == {"image_url", "no_image_url", "http_error", "raise"}

\* _generate_with_pollinations: one GET; the image of a 200 answer, else None.
GenerateWithPollinations(pollinations) ==
    [result |-> IF pollinations = "image" THEN "pollinations_image" ELSE "",
     calls |-> <<[provider |-> "pollinations", answer |-> pollinations]>>]

\* A Gemini call that returns None on failure without trying Pollinations.
GenerateWithGemini_NoFallback(gemini, pollinations) ==
    [result |-> IF gemini = "image" THEN "gemini_image" ELSE "",
     calls |-> <<[provider |-> "gemini", answer |-> gemini]>>]

\* _generate_with_gemini: one POST; the inline image of a 200 answer, and
\* otherwise (no image in the answer, another status, an exception) whatever
\* _generate_with_pollinations returns.
GenerateWithGemini(gemini, pollinations) ==
    LET first == <<[provider |-> "gemini", answer |-> gemini]>>
    IN IF gemini = "image"
       THEN [result |-> "gemini_image", calls |-> first]
       ELSE LET p == GenerateWithPollinations(pollinations)
            IN [result |-> p.result, calls |-> first \o p.calls]

\* _generate_with_custom_api: one POST; image_url of a 200 answer, else None.
GenerateWithCustomApi(custom) ==
    [result |-> IF custom = "image_url" THEN "custom_image_url" ELSE "",
     calls |-> <<[provider |-> "custom_api", answer |-> custom]>>]

\* generate_image: nothing without an API key; else Gemini, and when that
\* returned nothing the custom API if its URL is configured.  Every provider
\* method catches its own exceptions, so nothing reaches the outer except.
GenerateImageResult(api_key, api_url, gemini, pollinations, custom) ==
    IF api_key = "" THEN [result |-> "", calls |-> <<>>, raised |-> FALSE]
    ELSE LET g == GenerateWithGemini(gemini, pollinations)
         IN IF g.result # ""
            THEN [result |-> g.result, calls |-> g.calls, raised |-> FALSE]
            ELSE IF api_url # ""
            THEN LET c == GenerateWithCustomApi(custom)
                 IN [result |-> c.result, calls |-> g.calls \o c.calls, raised |-> FALSE]
            ELSE [result |-> "", calls |-> g.calls, raised |-> FALSE]

\* One generate_image request.
GenerateImage(gemini, pollinations, custom) ==
    /\ image_service.requests < MaxImageRequests
    /\ LET r == GenerateImageResult(image_service.api_key, image_service.api_url,
                                    gemini, pollinations, custom)
       IN image_service' = [image_service EXCEPT
                               !.requests = @ + 1, !.calls = r.calls,
                               !.result = r.result, !.raised = r.raised]
    /\ UNCHANGED <<active_contexts, clock, last, in_flight, memory_manager>>

\* An ImageService constructed from any settings.
InitImage ==
    /\ active_contexts = [s \in {} |-> NewContext(0)]
    /\ clock = 0
    /\ last = NoCall
    /\ in_flight = <<>>
    /\ memory_manager = NoMemoryManager
    /\ \E api_key \in {"", "key"}, api_url \in {"", "url"} :
          image_service = [NoImageService EXCEPT !.api_key = api_key, !.api_url = api_url]

NextImage ==
    \E gemini \in GeminiAnswers, pollinations \in PollinationsAnswers,
       custom \in CustomApiAnswers :
        GenerateImage(gemini, pollinations, custom)

SpecImage == InitImage /\ [][NextImage]_vars

---------------------------------------------------------------------------
(* utils/memory_manager.py.  The clock counts hours; of a context held in  *)
(* memory_cache or in a session file only last_updated is kept.            *)

\* The hour past which the clock is not advanced.
MaxMemoryHours == 48

session_timeout_hours == 24

\* _is_session_expired
IsSessionExpired(last_updated) == clock > last_updated + session_timeout_hours

Without(f, session_id) == [s \in DOMAIN f \ {session_id} |-> f[s]]

With(f, session_id, value) ==
    [s \in DOMAIN f \cup {session_id} |-> IF s = session_id THEN value ELSE f[s]]

\* save_context of a context the orchestrator has just updated.
SaveContext(session_id) ==
    /\ memory_manager' = [memory_manager EXCEPT
            !.memory_cache = With(@, session_id, clock),
            !.files = With(@, session_id, clock),
            !.op = "save", !.session_id = session_id, !.returned = TRUE]
    /\ UNCHANGED <<active_contexts, clock, last, in_flight, image_service>>

\* load_context: the cached context if there is one; else the context of the
\* session file, unless there is no file or the context in it has expired,
\* in which case the session is deleted; a loaded context is cached.
LoadContext(session_id) ==
    /\ LET cache == memory_manager.memory_cache
           files == memory_manager.files
       IN memory_manager' =
            IF session_id \in DOMAIN cache
            THEN [memory_manager EXCEPT
                    !.op = "load", !.session_id = session_id, !.returned = TRUE]
            ELSE IF session_id \notin DOMAIN files
            THEN [memory_manager EXCEPT
                    !.op = "load", !.session_id = session_id, !.returned = FALSE]
            ELSE IF IsSessionExpired(files[session_id])
            THEN [memory_manager EXCEPT
                    !.memory_cache = Without(cache, session_id),
                    !.files = Without(files, session_id),
                    !.op = "load", !.session_id = session_id, !.returned = FALSE]
            ELSE [memory_manager EXCEPT
                    !.memory_cache = With(cache, session_id, files[session_id]),
                    !.op = "load", !.session_id = session_id, !.returned = TRUE]
    /\ UNCHANGED <<active_contexts, clock, last, in_flight, image_service>>

\* delete_context
DeleteContext(session_id) ==
    /\ memory_manager' = [memory_manager EXCEPT
            !.memory_cache = Without(@, session_id),
            !.files = Without(@, session_id),
            !.op = "delete", !.session_id = session_id, !.returned = TRUE]
    /\ UNCHANGED <<active_contexts, clock, last, in_flight, image_service>>

\* cleanup_expired_sessions: every session expired in the cache or in its file
\* is deleted from both.
CleanupExpiredSessions ==
    /\ LET cache == memory_manager.memory_cache
           files == memory_manager.files
           expired_sessions ==
               {s \in DOMAIN cache : IsSessionExpired(cache[s])}
               \cup {s \in DOMAIN files : IsSessionExpired(files[s])}
       IN memory_manager' = [memory_manager EXCEPT
            !.memory_cache = [s \in DOMAIN cache \ expired_sessions |-> cache[s]],
            !.files = [s \in DOMAIN files \ expired_sessions |-> files[s]],
            !.op = "cleanup", !.session_id = "", !.returned = TRUE]
    /\ UNCHANGED <<active_contexts, clock, last, in_flight, image_service>>

\* The process is started again: a new MemoryManager over the same directory.
RestartMemoryManager ==
    /\ memory_manager' = [NoMemoryManager EXCEPT !.files = memory_manager.files,
                                                 !.op = "init"]
    /\ UNCHANGED <<active_contexts, clock, last, in_flight, image_service>>

\* Twelve hours pass.
Tick ==
    /\ clock + 12 <= MaxMemoryHours
    /\ clock' = clock + 12
    /\ UNCHANGED <<active_contexts, last, in_flight, image_service, memory_manager>>

NextMemory ==
    \/ \E session_id \in SessionIds : SaveContext(session_id)
    \/ \E session_id \in SessionIds : LoadContext(session_id)
    \/ \E session_id \in SessionIds : DeleteContext(session_id)
    \/ CleanupExpiredSessions
    \/ RestartMemoryManager
    \/ Tick

SpecMemory == Init /\ [][NextMemory]_vars

---------------------------------------------------------------------------
(* continue_conversation as the event loop runs it: the call runs up to    *)
(* the first upstream request of its stage handler, is suspended there     *)
(* while other calls run, and resumes to the end.  What a handler reads it *)
(* reads before its first request and what it writes it writes after its   *)
(* last one, so the requests of one handler are one suspension.  The calls *)
(* here carry short messages, for which extraction makes no request.       *)

\* The number of continue_conversation calls issued on the session.
MaxRaceCalls == 2

\* The writes of a stage handler after its last upstream request, made on the
\* context as it is when the handler resumes: extracted_insights.update(...)
\* in develop_strategy, campaign_output in create_campaign_content.
ApplyHandlerWrites(cur, stage, h) ==
    CASE stage = STRATEGY_DEVELOPMENT /\ h.resp.next_stage = CONTENT_CREATION ->
            LET written == {"campaign_strategy", "content_pillars",
                            "platform_strategy", "kpi_framework"}
            IN [cur EXCEPT !.extracted_insights =
                   [k \in DOMAIN cur.extracted_insights \cup written |->
                       IF k \in written THEN h.ctx.extracted_insights[k]
                       ELSE cur.extracted_insights[k]]]
      [] stage = CONTENT_CREATION /\ h.resp.next_stage = REVIEW_REFINEMENT ->
            [cur EXCEPT !.campaign_output = h.ctx.campaign_output]
      [] OTHER -> cur

\* A call that suspends without having recorded the user message.
BeginCall_MessageNotRecorded(session_id, message, env) ==
    /\ session_id \in DOMAIN active_contexts
    /\ ~UserProvidedComprehensiveInfo(message)
    /\ LET ctx == active_contexts[session_id]
           c1 == AddMessage(ctx, USER, UserText, clock)
           x == ExtractInformation(c1, message, env)
           h == ProcessConversationStage(x.ctx, env)
       IN /\ h.calls > 0
          /\ active_contexts' = active_contexts
          /\ in_flight' = Append(in_flight,
                [session_id |-> session_id, message |-> message, env |-> env,
                 stage |-> x.ctx.current_stage, before |-> ctx, handled |-> h,
                 during |-> {i \in 1..Len(in_flight) :
                                /\ ~in_flight[i].done
                                /\ in_flight[i].session_id = session_id},
                 done |-> FALSE])
    /\ clock' = clock + 1
    /\ UNCHANGED last

\* continue_conversation from its entry to the first upstream request of the
\* stage handler: the user message is recorded, information is extracted, the
\* stage is read and the handler reads what it needs; then the call is
\* suspended.  `during` names the calls on the session suspended at that time.
BeginCall(session_id, message, env) ==
    /\ session_id \in DOMAIN active_contexts
    /\ ~UserProvidedComprehensiveInfo(message)
    /\ LET ctx == active_contexts[session_id]
           c1 == AddMessage(ctx, USER, UserText, clock)
           x == ExtractInformation(c1, message, env)
           h == ProcessConversationStage(x.ctx, env)
       IN /\ h.calls > 0
          /\ active_contexts' = [active_contexts EXCEPT ![session_id] = x.ctx]
          /\ in_flight' = Append(in_flight,
                [session_id |-> session_id, message |-> message, env |-> env,
                 stage |-> x.ctx.current_stage, before |-> ctx, handled |-> h,
                 during |-> {i \in 1..Len(in_flight) :
                                /\ ~in_flight[i].done
                                /\ in_flight[i].session_id = session_id},
                 done |-> FALSE])
    /\ clock' = clock + 1
    /\ UNCHANGED last

\* continue_conversation from the resumption of the handler to the return: the
\* handler's writes, the assistant message, the stage and last_updated, all
\* on the context as the call finds it.
FinishCall(i) ==
    /\ i \in 1..Len(in_flight)
    /\ ~in_flight[i].done
    /\ LET c == in_flight[i]
           h == c.handled
           cur == active_contexts[c.session_id]
           w == ApplyHandlerWrites(cur, c.stage, h)
           c2 == AddMessage(w, ASSISTANT, h.resp.message, clock)
           c3 == UpdateStage(c2, h.resp)
       IN /\ active_contexts' = [active_contexts EXCEPT
                                    ![c.session_id] = [c3 EXCEPT !.last_updated = clock + 1]]
          /\ last' = [NoCall EXCEPT
                        !.op = "continue", !.session_id = c.session_id,
                        !.text = c.message.id, !.status = "active",
                        !.message = h.resp.message,
                        !.stage = c3.current_stage,
                        !.stage_before = c.stage,
                        !.questions = h.resp.questions,
                        !.requires_clarification = h.resp.requires_clarification,
                        !.handler = c.stage,
                        !.calls = h.calls, !.fails = h.fails, !.tasks = h.tasks,
                        !.task_replies = [k \in 1..h.tasks |-> c.env.post[k]],
                        !.visual_calls = h.visual_calls,
                        !.pillar_reply = [outcome |-> c.env.pillars,
                                          headers |-> c.env.pillar_headers]]
    /\ in_flight' = [in_flight EXCEPT ![i].done = TRUE]
    /\ clock' = clock + 2

NextRace ==
    \/ StartConversation(TheSession) /\ UNCHANGED services
    \/ \E message \in ShortTexts :
          /\ TheSession \in DOMAIN active_contexts
          /\ Len(in_flight) < MaxRaceCalls
          /\ \E env \in TurnEnvs(active_contexts[TheSession].current_stage, FALSE) :
                BeginCall(TheSession, message, env)
          /\ UNCHANGED <<image_service, memory_manager>>
    \/ \E i \in 1..MaxRaceCalls :
          FinishCall(i) /\ UNCHANGED <<image_service, memory_manager>>

SpecRace == Init /\ [][NextRace]_vars

---------------------------------------------------------------------------
(* Properties                                                              *)

\* The sessions that exist before and after a step.
Kept == DOMAIN active_contexts \cap DOMAIN active_contexts'

StageOf(s) == active_contexts[s].current_stage

TextOf(id) == CHOOSE t \in Texts \cup {TextRun} : t.id = id

\* C1 as stated: no step moves the stage of a session to an earlier stage of
\* the canonical order.
C1_NeverBackward ==
    [][\A s \in Kept : StageOrd(StageOf(s)') >= StageOrd(StageOf(s))]_vars

\* C1 amended: the stage of a session moves to an earlier stage only in a
\* turn whose message is comprehensive, and then to strategy_development.
C1_BackwardOnlyByComprehensive ==
    [][\A s \in Kept :
          StageOrd(StageOf(s)') < StageOrd(StageOf(s))
          => /\ last'.op = "continue" /\ last'.session_id = s
             /\ LET t == TextOf(last'.text)
                IN t.numbered \/ (t.len > 100 /\ (t.periods > 3 \/ t.commas > 3))
             /\ StageOf(s)' = STRATEGY_DEVELOPMENT]_vars

\* A turn has taken a session back from a later stage.
C1_Witness ==
    /\ last.op = "continue" /\ last.status = "active"
    /\ StageOrd(last.stage) < StageOrd(last.stage_before)

\* The edges of the stage table, with the comprehensive jump from `froms`.
TableEdge(a, b, output_ready, comprehensive, froms) ==
    \/ a = b
    \/ a \in {GREETING, DISCOVERY, BRAND_ANALYSIS} /\ b = STRATEGY_DEVELOPMENT
    \/ a = STRATEGY_DEVELOPMENT /\ b = CONTENT_CREATION
    \/ a = CONTENT_CREATION /\ b = REVIEW_REFINEMENT
    \/ a = REVIEW_REFINEMENT /\ b = FINALIZATION
    \/ a \in {REVIEW_REFINEMENT, FINALIZATION} /\ b = CONTENT_CREATION /\ ~output_ready
    \/ comprehensive /\ b = STRATEGY_DEVELOPMENT /\ a \in froms

EarlierThanStrategy == {GREETING, DISCOVERY, BRAND_ANALYSIS}

\* C2 as stated: every stage change of a step is an edge of the stage table,
\* the comprehensive jump being taken from an earlier stage only.
C2_TableEdgesOnly ==
    [][\A s \in Kept :
          TableEdge(StageOf(s), StageOf(s)', active_contexts[s].campaign_output.ready,
                    last'.op = "continue" /\ last'.session_id = s /\ last'.comprehensive,
                    EarlierThanStrategy)]_vars

\* C2 amended: every stage change of a step is an edge of the stage table,
\* the comprehensive jump to strategy_development being taken from any stage.
C2_TableEdgesAndJumpFromAnyStage ==
    [][\A s \in Kept :
          TableEdge(StageOf(s), StageOf(s)', active_contexts[s].campaign_output.ready,
                    last'.op = "continue" /\ last'.session_id = s /\ last'.comprehensive,
                    Stages)]_vars

\* A comprehensive message has taken a session from review_refinement to
\* strategy_development.
C2_Witness ==
    /\ last.op = "continue" /\ last.comprehensive
    /\ last.stage_before = REVIEW_REFINEMENT /\ last.stage = STRATEGY_DEVELOPMENT

\* C3: a turn on an existing session whose text has a numbered-list marker, or
\* is longer than 100 characters with more than 3 periods or more than 3
\* commas, ends in strategy_development without dispatching a stage handler.
C3_ComprehensiveTakesPrecedence ==
    (last.op = "continue" /\ last.status = "active"
       /\ LET t == TextOf(last.text)
          IN t.numbered \/ (t.len > 100 /\ (t.periods > 3 \/ t.commas > 3)))
    => /\ last.stage = STRATEGY_DEVELOPMENT
       /\ active_contexts[last.session_id].current_stage = STRATEGY_DEVELOPMENT
       /\ last.handler = "none"

\* A comprehensive message has been sent to a session in finalization.
C3_Witness ==
    /\ last.op = "continue" /\ last.comprehensive
    /\ last.stage_before = FINALIZATION /\ last.stage = STRATEGY_DEVELOPMENT
    /\ last.handler = "none"

\* C4: a continue_conversation call on an identifier that is not in the store
\* returns status "error", adds no session and changes no session.
C4_UnknownSessionIsAnError ==
    [][(last'.op = "continue" /\ last'.session_id \notin DOMAIN active_contexts)
          => /\ last'.status = "error"
             /\ last'.message = ""
             /\ active_contexts' = active_contexts]_vars

\* An unknown identifier was refused while another session existed.
C4_Witness ==
    /\ last.op = "continue" /\ last.status = "error"
    /\ last.session_id \notin DOMAIN active_contexts
    /\ DOMAIN active_contexts # {}

\* C6: close_session returns true exactly when the identifier was in the store,
\* removes it, leaves every other session as it was, and a second close of the
\* same identifier returns false.
C6_CloseSession ==
    [][last'.op = "close"
          => LET id == last'.session_id
             IN /\ last'.result <=> id \in DOMAIN active_contexts
                /\ DOMAIN active_contexts' = DOMAIN active_contexts \ {id}
                /\ \A s \in DOMAIN active_contexts' :
                      active_contexts'[s] = active_contexts[s]
                /\ (last.op = "close" /\ last.session_id = id) => ~last'.result]_vars

\* A session was closed while another one stayed in the store.
C6_Witness ==
    /\ last.op = "close" /\ last.result
    /\ last.session_id \notin DOMAIN active_contexts
    /\ DOMAIN active_contexts # {}

ProfileStrings == {"name", "description", "target_audience", "brand_voice"}
ProfileLists == {"unique_selling_points", "competitors"}

\* C7 as stated: a turn changes no business-profile field that was populated
\* before it.
C7_NoPopulatedFieldOverwritten ==
    [][last'.op = "continue"
          => \A s \in Kept :
                LET old == active_contexts[s].company_info
                    new == active_contexts'[s].company_info
                IN /\ \A f \in ProfileStrings : old[f] # "" => new[f] = old[f]
                   /\ \A f \in ProfileLists : old[f] # <<>> => new[f] = old[f]]_vars

\* C9 as stated: a turn in which an upstream call raised leaves the stage as
\* it was.
C9_FailureKeepsStage ==
    (last.op = "continue" /\ last.status = "active" /\ last.fails > 0)
    => last.stage = last.stage_before

\* C9 amended: a turn in which an upstream call raised returns status "active"
\* and ends in the stage it ends in when every upstream call succeeds.
C9_FailureDoesNotChangeTheOutcome ==
    [][(last'.op = "continue" /\ last'.session_id \in DOMAIN active_contexts
          /\ last'.fails > 0)
          => LET s == last'.session_id
                 ok == ContinueTurn(active_contexts[s], TextOf(last'.text), AllOk, clock)
             IN /\ last'.status = "active"
                /\ active_contexts'[s].current_stage = ok.ctx.current_stage
                /\ last'.stage = ok.ctx.current_stage]_vars

\* A turn in which an upstream call raised has advanced the stage.
C9_Witness ==
    /\ last.op = "continue" /\ last.status = "active" /\ last.fails > 0
    /\ StageOrd(last.stage) > StageOrd(last.stage_before)

\* C10 as stated: a continue_conversation call returns status "active" with a
\* non-empty message when the session exists, whatever the upstream calls do,
\* and status "error" only when it does not exist.
C10_ActiveWithNonEmptyMessage ==
    [][last'.op = "continue"
          => IF last'.session_id \in DOMAIN active_contexts
             THEN last'.status = "active" /\ last'.message # ""
             ELSE last'.status = "error"]_vars

\* C10 amended: a continue_conversation call returns status "active" when the
\* session exists and status "error" only when it does not; the message is
\* empty only when it is the reply of an upstream call that did not raise,
\* that is in a comprehensive turn or in greeting, discovery or
\* brand_analysis.
C10_ActiveForEveryExistingSession ==
    [][last'.op = "continue"
          => IF last'.session_id \in DOMAIN active_contexts
             THEN /\ last'.status = "active"
                  /\ last'.message = ""
                     => /\ last'.fails < last'.calls
                        /\ \/ last'.comprehensive
                           \/ last'.stage_before \in {GREETING, DISCOVERY, BRAND_ANALYSIS}
             ELSE last'.status = "error"]_vars

\* A turn in which every upstream call raised has returned status "active".
C10_Witness ==
    /\ last.op = "continue" /\ last.status = "active" /\ last.message # ""
    /\ last.calls > 0 /\ last.fails = last.calls

\* The history after one append as C5 describes it: 51 entries are replaced
\* by the last 40 of them.
C5_Pruned(h) == IF Len(h) = 51 THEN SubSeq(h, 12, 51) ELSE h

\* C5: the history of a session never holds more than 50 entries after an
\* append, and an append that makes it 51 entries long leaves exactly the last
\* 40 of them, in order; an append removes and reorders nothing else.
C5_HistoryCappedAtFifty ==
    [][\A s \in Kept :
          LET old == active_contexts[s].messages
              new == active_contexts'[s].messages
          IN /\ Len(new) <= 50
             /\ new # old
                => /\ Len(new) >= 2
                   /\ new = C5_Pruned(Append(C5_Pruned(Append(old, new[Len(new) - 1])),
                                             new[Len(new)]))]_vars

\* The history was cut to 40 entries and no longer starts with the greeting.
C5_Witness ==
    \E s \in DOMAIN active_contexts :
        /\ Len(active_contexts[s].messages) = 40
        /\ active_contexts[s].messages[1].timestamp > 1

NoFoundation(ctx) ==
    \/ "campaign_strategy" \notin DOMAIN ctx.extracted_insights
    \/ "content_pillars" \notin DOMAIN ctx.extracted_insights

\* C8 as stated: a turn on a session in content_creation whose insights lack
\* campaign_strategy or content_pillars asks for clarification, leaves the
\* stage and the campaign output as they were and requests no post.
C8_NoFoundationNoContent ==
    [][\A s \in Kept :
          (last'.op = "continue" /\ last'.session_id = s
             /\ StageOf(s) = CONTENT_CREATION /\ NoFoundation(active_contexts[s]))
          => /\ last'.requires_clarification
             /\ StageOf(s)' = CONTENT_CREATION
             /\ last'.tasks = 0
             /\ active_contexts'[s].campaign_output = active_contexts[s].campaign_output]_vars

\* C8 amended: the same, for a turn whose message is not comprehensive.
C8_NoFoundationNoContentUnlessComprehensive ==
    [][\A s \in Kept :
          (last'.op = "continue" /\ last'.session_id = s
             /\ StageOf(s) = CONTENT_CREATION /\ NoFoundation(active_contexts[s])
             /\ LET t == TextOf(last'.text)
                IN ~(t.numbered \/ (t.len > 100 /\ (t.periods > 3 \/ t.commas > 3))))
          => /\ last'.requires_clarification
             /\ StageOf(s)' = CONTENT_CREATION
             /\ last'.tasks = 0
             /\ active_contexts'[s].campaign_output = active_contexts[s].campaign_output]_vars

\* The content handler has refused a session that has a strategy but no
\* content pillars.
C8_Witness ==
    /\ last.op = "continue" /\ last.handler = CONTENT_CREATION
    /\ last.stage_before = CONTENT_CREATION /\ last.stage = CONTENT_CREATION
    /\ last.requires_clarification
    /\ "campaign_strategy" \in DOMAIN active_contexts[last.session_id].extracted_insights
    /\ "content_pillars" \notin DOMAIN active_contexts[last.session_id].extracted_insights

\* C11: start_conversation adds exactly one session, under an identifier that
\* was not in the store, changes no other session and returns status "active";
\* the new session is in greeting, has no campaign output, and its history is
\* the one assistant message that was returned as the greeting.
C11_StartAddsOneGreetingSession ==
    [][last'.op = "start"
          => LET id == last'.session_id
             IN /\ id \notin DOMAIN active_contexts
                /\ DOMAIN active_contexts' = DOMAIN active_contexts \cup {id}
                /\ \A s \in DOMAIN active_contexts : active_contexts'[s] = active_contexts[s]
                /\ last'.status = "active"
                /\ active_contexts'[id].current_stage = GREETING
                /\ ~active_contexts'[id].campaign_output.ready
                /\ Len(active_contexts'[id].messages) = 1
                /\ active_contexts'[id].messages[1].role = ASSISTANT
                /\ active_contexts'[id].messages[1].content = last'.message
                /\ last'.message # ""]_vars

\* A second session was started while the first was in a later stage.
C11_Witness ==
    /\ last.op = "start" /\ last.status = "active"
    /\ Cardinality(DOMAIN active_contexts) = 2
    /\ \E s \in DOMAIN active_contexts : active_contexts[s].current_stage # GREETING

\* C12: get_conversation_summary and get_campaign_output change no session;
\* the summary is an error exactly when the identifier is unknown, and the
\* output is ready exactly when the session exists and has a campaign output,
\* and an error otherwise.
C12_AccessorsOnlyRead ==
    [][last'.op \in {"summary", "output"}
          => LET id == last'.session_id
                 known == id \in DOMAIN active_contexts
             IN /\ active_contexts' = active_contexts
                /\ last'.op = "summary" => (last'.error # "" <=> ~known)
                /\ last'.op = "output"
                   => /\ last'.result <=> (known /\ active_contexts[id].campaign_output.ready)
                      /\ last'.error # "" <=> ~last'.result]_vars

\* The output of a session whose content was created has been fetched.
C12_Witness ==
    /\ last.op = "output" /\ last.result
    /\ last.session_id \in DOMAIN active_contexts
    /\ active_contexts[last.session_id].campaign_output.ready

\* The number of user messages in a history.
C13_UserMessages(messages) == Cardinality({i \in 1..Len(messages) : messages[i].role = USER})

\* C13 as stated: when the discovery or brand_analysis handler runs on a
\* context whose business name is empty and that holds fewer than 3 user
\* messages, the response asks for clarification with at least one question
\* and proposes discovery, whatever the other profile fields hold.
C13_MissingNameAsksQuestions ==
    [][\A s \in Kept :
          (last'.op = "continue" /\ last'.session_id = s
             /\ last'.handler \in {DISCOVERY, BRAND_ANALYSIS}
             /\ active_contexts'[s].company_info.name = ""
             /\ C13_UserMessages(active_contexts'[s].messages) < 3)
          => /\ last'.requires_clarification
             /\ last'.questions >= 1
             /\ active_contexts'[s].current_stage = DISCOVERY]_vars

\* What develop_strategy requires: name, industry or description, target
\* audience, and primary objective or target platforms.
SufficientForStrategy(ctx) ==
    /\ ctx.company_info.name # ""
    /\ ctx.company_info.industry # "" \/ ctx.company_info.description # ""
    /\ ctx.company_info.target_audience # ""
    /\ ctx.campaign_goals.primary_objective # "" \/ ctx.campaign_goals.target_platforms # <<>>

\* A turn on session s that the strategy handler has served.
StrategyTurn(s) ==
    /\ last'.op = "continue" /\ last'.session_id = s
    /\ last'.handler = STRATEGY_DEVELOPMENT

\* C14 as stated: when one of the required items is missing, develop_strategy
\* asks for clarification with one or two questions, proposes no next stage
\* and writes nothing to the insights.
C14_InsufficientAsksOneOrTwo ==
    [][\A s \in Kept :
          (StrategyTurn(s) /\ ~SufficientForStrategy(active_contexts'[s]))
          => /\ last'.requires_clarification
             /\ last'.questions \in 1..2
             /\ active_contexts'[s].current_stage = STRATEGY_DEVELOPMENT
             /\ active_contexts'[s].extracted_insights
                   = active_contexts[s].extracted_insights]_vars

\* C14 amended: when one of the required items is missing, develop_strategy
\* asks for clarification, proposes no next stage and writes nothing to the
\* insights; it returns one question for each of primary objective, target
\* platforms and budget that is not set, at most two, and so none when all
\* three are set.
C14_InsufficientAsksUpToTwo ==
    [][\A s \in Kept :
          (StrategyTurn(s) /\ ~SufficientForStrategy(active_contexts'[s]))
          => LET goals == active_contexts'[s].campaign_goals
                 unset == Cardinality({f \in {"primary_objective", "budget_range"} :
                                          goals[f] = ""})
                          + (IF goals.target_platforms = <<>> THEN 1 ELSE 0)
             IN /\ last'.requires_clarification
                /\ last'.questions = (IF unset > 2 THEN 2 ELSE unset)
                /\ active_contexts'[s].current_stage = STRATEGY_DEVELOPMENT
                /\ active_contexts'[s].extracted_insights
                      = active_contexts[s].extracted_insights]_vars

\* The strategy handler has asked for clarification without a question: the
\* audience is missing and objective, platforms and budget are set.
C14_Witness ==
    /\ last.op = "continue" /\ last.handler = STRATEGY_DEVELOPMENT
    /\ last.requires_clarification /\ last.questions = 0
    /\ last.stage = STRATEGY_DEVELOPMENT
    /\ active_contexts[last.session_id].company_info.target_audience = ""

\* C15: when name, industry or description, target audience, and objective or
\* platforms are all present, develop_strategy proposes content_creation
\* without asking for clarification and leaves campaign_strategy,
\* content_pillars, platform_strategy and kpi_framework in the insights, also
\* when upstream calls raise.
C15_SufficientYieldsStrategy ==
    [][\A s \in Kept :
          (StrategyTurn(s) /\ SufficientForStrategy(active_contexts'[s]))
          => /\ ~last'.requires_clarification
             /\ active_contexts'[s].current_stage = CONTENT_CREATION
             /\ {"campaign_strategy", "content_pillars", "platform_strategy",
                 "kpi_framework"} \subseteq DOMAIN active_contexts'[s].extracted_insights]_vars

\* A strategy was stored although one of the four upstream calls raised.
C15_Witness ==
    /\ last.op = "continue" /\ last.handler = STRATEGY_DEVELOPMENT
    /\ last.fails = 1 /\ last.calls = 4
    /\ last.stage = CONTENT_CREATION
    /\ "kpi_framework" \in DOMAIN active_contexts[last.session_id].extracted_insights

\* C16 as stated: after a turn of a started session in which the user states
\* the name of the business, the name in the profile is the stated name.
C16_StatedNameIsStored ==
    [][\A s \in Kept :
          (last'.op = "continue" /\ last'.session_id = s /\ StatedName(last'.text) # "")
          => active_contexts'[s].company_info.name = StatedName(last'.text)]_vars

\* The posts of the session the last call was made on.
LastPosts == active_contexts[last.session_id].campaign_output.posts

\* A turn in which the content handler has started post tasks.
ContentTurn ==
    /\ last.op = "continue" /\ last.handler = CONTENT_CREATION
    /\ last.tasks > 0

\* The tasks of the last turn whose generation request raised.
FailedTasks == {i \in 1..last.tasks : last.task_replies[i] = RAISE}

\* C17 as stated: the posts of a content turn are those of the tasks that did
\* not fail; a task whose generation request raised contributes none.
C17_FailedTaskContributesNoPost ==
    ContentTurn => Len(LastPosts) = last.tasks - Cardinality(FailedTasks)

\* C17 amended: a task whose generation request raised neither cancels nor
\* fails its siblings and contributes a post of its own, with the static
\* fallback content: the output holds one post for each task, in task order.
C17_EveryTaskContributesAPost ==
    ContentTurn
    => /\ Len(LastPosts) = last.tasks
       /\ \A i \in 1..last.tasks :
             LastPosts[i].content = "fallback_content" <=> i \in FailedTasks

\* One generation request of a content turn raised and its siblings' did not.
C17_Witness ==
    /\ ContentTurn
    /\ Cardinality(FailedTasks) = 1 /\ last.tasks >= 2
    /\ Len(LastPosts) = last.tasks

\* The platform task i of the last content turn was started for: tasks are
\* made platform by platform, the same number for each.
RequestedPlatform(i) ==
    LET goals == active_contexts[last.session_id].campaign_goals
        platforms == IF goals.target_platforms # <<>> THEN goals.target_platforms
                     ELSE <<"facebook", "instagram">>
        each == last.tasks \div Len(platforms)
    IN platforms[((i - 1) \div each) + 1]

\* C18 as stated: create_single_post returns, for every outcome of its
\* upstream calls, a post for the requested platform with non-empty content.
C18_PostWithNonEmptyContent ==
    ContentTurn
    => /\ Len(LastPosts) = last.tasks
       /\ \A i \in 1..last.tasks :
             /\ LastPosts[i].platform = RequestedPlatform(i)
             /\ LastPosts[i].content # ""

\* C18 amended: create_single_post returns, for every outcome of its upstream
\* calls, a post for the requested platform; its content is the static
\* fallback when the generation request raised and is taken from the reply
\* otherwise, so it is empty exactly when the reply is empty.
C18_PostForRequestedPlatform ==
    ContentTurn
    => /\ Len(LastPosts) = last.tasks
       /\ \A i \in 1..last.tasks :
             /\ LastPosts[i].platform = RequestedPlatform(i)
             /\ LastPosts[i].content = "" <=> last.task_replies[i] = EMPTY
             /\ last.task_replies[i] = RAISE => LastPosts[i].content = "fallback_content"

\* Posts were made for two platforms, one from a raised generation request and
\* one whose visual call raised.
C18_Witness ==
    /\ ContentTurn
    /\ \E i, j \in 1..last.tasks :
          /\ LastPosts[i].platform # LastPosts[j].platform
          /\ LastPosts[j].content = "fallback_content"
    /\ \E i \in 1..last.tasks : LastPosts[i].image_prompt = "parsed"

\* C19: a continue_conversation, get_conversation_summary, get_campaign_output
\* or close_session call that names one session leaves every other session of
\* the store as it was.
C19_OtherSessionsUntouched ==
    [][last'.op \in {"continue", "summary", "output", "close"}
          => \A b \in DOMAIN active_contexts \ {last'.session_id} :
                /\ b \in DOMAIN active_contexts'
                /\ active_contexts'[b] = active_contexts[b]]_vars

\* A turn was made on one session while another one, past greeting, was in
\* the store.
C19_Witness ==
    /\ last.op = "continue" /\ last.status = "active"
    /\ \E b \in DOMAIN active_contexts \ {last.session_id} :
          active_contexts[b].current_stage # GREETING

\* What a session holds, without the times: stage, profile, goals, insights,
\* campaign output, and the role and content of each history entry.
Shape(ctx) ==
    [current_stage |-> ctx.current_stage,
     company_info |-> ctx.company_info,
     campaign_goals |-> ctx.campaign_goals,
     extracted_insights |-> ctx.extracted_insights,
     campaign_output |-> ctx.campaign_output,
     messages |-> [k \in 1..Len(ctx.messages) |->
                      <<ctx.messages[k].role, ctx.messages[k].content>>]]

\* One call after the other, each run to its end before the next starts.
SequentialTurns(ctx, m1, m2) ==
    UNION {{Shape(ContinueTurn(t1.ctx, m2, e2, 0).ctx) :
               e2 \in TurnEnvs(t1.ctx.current_stage, UserProvidedComprehensiveInfo(m2))} :
           t1 \in {ContinueTurn(ctx, m1, e1, 0) :
                      e1 \in TurnEnvs(ctx.current_stage, UserProvidedComprehensiveInfo(m1))}}

\* The states the two calls can leave when they do not overlap, in either order.
SequentialOutcomes(ctx, m1, m2) ==
    SequentialTurns(ctx, m1, m2) \cup SequentialTurns(ctx, m2, m1)

ConsecutiveUserMessages(ctx) ==
    \E k \in 1..(Len(ctx.messages) - 1) :
        ctx.messages[k].role = USER /\ ctx.messages[k + 1].role = USER

\* Two calls were made on the session, the second while the first was
\* suspended in its upstream request, and both have returned.
TwoCallsOverlapped ==
    /\ Len(in_flight) = 2
    /\ in_flight[1].done /\ in_flight[2].done
    /\ in_flight[1].session_id = in_flight[2].session_id
    /\ 1 \in in_flight[2].during

\* C20: two continue_conversation calls on one session that overlap at an
\* upstream request are dispatched on the same stage, and leave a session
\* state (two consecutive user messages in the history) that the two calls
\* made one after the other, in either order, never leave.
C20_OverlappingCallsRace ==
    TwoCallsOverlapped =>
        LET ctx == active_contexts[TheSession]
        IN /\ in_flight[1].stage = in_flight[2].stage
           /\ ConsecutiveUserMessages(ctx)
           /\ Shape(ctx) \notin SequentialOutcomes(in_flight[1].before,
                                                   in_flight[1].message,
                                                   in_flight[2].message)

\* Two overlapping calls, both dispatched in greeting, have returned: the
\* session is in strategy development with two user messages in a row, while
\* the two calls in sequence always end in content creation.
C20_Witness ==
    /\ TwoCallsOverlapped
    /\ in_flight[1].stage = GREETING /\ in_flight[2].stage = GREETING
    /\ active_contexts[TheSession].current_stage = STRATEGY_DEVELOPMENT
    /\ ConsecutiveUserMessages(active_contexts[TheSession])
    /\ \A o \in SequentialOutcomes(in_flight[1].before, in_flight[1].message,
                                   in_flight[2].message) :
          o.current_stage = CONTENT_CREATION

\* The platforms the content handler makes posts for.
PlatformsOf(ctx) ==
    IF ctx.campaign_goals.target_platforms # <<>>
    THEN ctx.campaign_goals.target_platforms ELSE <<"facebook", "instagram">>

\* The stored pillars the content handler uses: the first four.
PillarsUsed(ctx) ==
    IF ctx.extracted_insights["content_pillars"].n < 4
    THEN ctx.extracted_insights["content_pillars"].n ELSE 4

\* The session had campaign_strategy and content_pillars in its insights.
Foundation(ctx) ==
    /\ "campaign_strategy" \in DOMAIN ctx.extracted_insights
    /\ "content_pillars" \in DOMAIN ctx.extracted_insights

\* C21: a content_creation turn on a session that has the strategy foundation
\* starts |P| x min(|pillars|, 4) post tasks, min(|pillars|, 4) for each
\* platform of P in turn, P being the target platforms or facebook and
\* instagram when there are none; the output it stores holds the post of
\* every one of these tasks.
C21_OneTaskPerPlatformAndPillar ==
    [][LET s == last'.session_id
       IN (/\ last'.op = "continue" /\ last'.handler = CONTENT_CREATION
           /\ Foundation(active_contexts[s]))
          => LET after == active_contexts'[s]
                 P == PlatformsOf(after)
                 each == PillarsUsed(active_contexts[s])
                 posts == after.campaign_output.posts
             IN /\ last'.tasks = Len(P) * each
                /\ after.campaign_output.ready
                /\ Len(posts) = last'.tasks
                /\ \A k \in 1..Len(P), j \in 1..each :
                      posts[(k - 1) * each + j].platform = P[k]]_vars

\* A content turn made posts for the two default platforms from five stored
\* pillars: eight tasks.
C21_Witness ==
    /\ last.op = "continue" /\ last.handler = CONTENT_CREATION
    /\ Foundation(active_contexts[last.session_id])
    /\ active_contexts[last.session_id].campaign_goals.target_platforms = <<>>
    /\ active_contexts[last.session_id].extracted_insights["content_pillars"].n = 5
    /\ last.tasks = 8
    /\ Len(active_contexts[last.session_id].campaign_output.posts) = 8

\* A content turn that stored an output with posts.
ContentTurnWithPosts ==
    /\ ContentTurn
    /\ Len(last.visual_calls) = Len(LastPosts)

OutputOf(contexts) == contexts[TheSession].campaign_output

\* The step is a content_creation turn that stored an output and advanced to
\* review_refinement.
ContentTurnStoresOutput ==
    /\ last'.op = "continue" /\ last'.handler = CONTENT_CREATION
    /\ last'.stage = REVIEW_REFINEMENT
    /\ OutputOf(active_contexts').ready

\* C23 as stated: the campaign output of a session is assigned at most once;
\* once present, no later turn replaces or clears it.
C23_OutputAssignedOnce ==
    [][(TheSession \in DOMAIN active_contexts /\ OutputOf(active_contexts).ready)
          => /\ OutputOf(active_contexts') = OutputOf(active_contexts)
             /\ ~ContentTurnStoresOutput]_vars

\* C23 amended: the campaign output is assigned by content_creation turns that
\* advance to review_refinement and by no other turn, and once present it is
\* never cleared; it is assigned again, replacing the earlier one, by every
\* later such turn, which a comprehensive message makes possible by sending
\* the session back to strategy_development.
C23_OutputAssignedByContentTurnsOnly ==
    [][(TheSession \in DOMAIN active_contexts)
          => /\ (OutputOf(active_contexts') # OutputOf(active_contexts)
                    => ContentTurnStoresOutput)
             /\ (OutputOf(active_contexts).ready
                    => OutputOf(active_contexts').ready)]_vars

\* The assistant messages of the session that report created content.
ContentSummaries ==
    {k \in 1..Len(active_contexts[TheSession].messages) :
        /\ active_contexts[TheSession].messages[k].role = ASSISTANT
        /\ active_contexts[TheSession].messages[k].content = "content_summary"}

\* The session has stored an output twice, the second time with posts made
\* while the upstream service was down, and is in review again.
C23_Witness ==
    /\ last.op = "continue" /\ last.handler = CONTENT_CREATION
    /\ last.stage = REVIEW_REFINEMENT
    /\ Cardinality(ContentSummaries) = 2
    /\ last.fails > 0
    /\ OutputOf(active_contexts).ready

\* A strategy_development turn that stored a strategy and advanced to
\* content_creation.
StrategyTurnAdvanced ==
    /\ last.op = "continue" /\ last.handler = STRATEGY_DEVELOPMENT
    /\ last.stage = CONTENT_CREATION

\* The number of content pillars stored for the session of the last call.
StoredPillars == active_contexts[last.session_id].extracted_insights["content_pillars"].n

\* C24 as stated: after a strategy_development turn that advances to
\* content_creation the stored content_pillars list has 4 to 6 entries,
\* whatever the pillar reply.
C24_FourToSixPillars ==
    StrategyTurnAdvanced => StoredPillars >= 4 /\ StoredPillars <= 6

\* C24 amended: after such a turn the stored list has one entry for each
\* pillar-header line of the reply, and the four default pillars when the
\* reply has no such line or the pillar request raised.
C24_OnePillarPerHeaderLine ==
    StrategyTurnAdvanced
    => StoredPillars = IF last.pillar_reply.outcome = RAISE \/ last.pillar_reply.headers = 0
                       THEN 4 ELSE last.pillar_reply.headers

\* A strategy turn stored the two pillars of a reply with two header lines.
C24_Witness ==
    /\ StrategyTurnAdvanced
    /\ last.pillar_reply.outcome = OK /\ last.pillar_reply.headers = 2
    /\ StoredPillars = 2

\* The calls the last generate_image request made to a provider.
CallsTo(provider) ==
    {k \in 1..Len(image_service.calls) : image_service.calls[k].provider = provider}

ImageRequestServed == image_service.requests > 0

\* The providers other than Gemini that the last request called.
FallbackCalls ==
    {k \in 1..Len(image_service.calls) : image_service.calls[k].provider # "gemini"}

\* C25 as stated: generate_image never raises and calls no provider twice: the
\* primary provider at most once and, when it fails, at most one fallback
\* provider; it returns None when both fail or when no API key is configured.
C25_AtMostOneFallback ==
    ImageRequestServed
    => /\ ~image_service.raised
       /\ Cardinality(CallsTo("gemini")) <= 1
       /\ Cardinality(FallbackCalls) <= 1
       /\ image_service.api_key = "" => image_service.result = ""
       /\ (\A k \in 1..Len(image_service.calls) :
              image_service.calls[k].answer \notin {"image", "image_url"})
             => image_service.result = ""

\* C25 amended: generate_image never raises and calls no provider twice: with
\* an API key it calls Gemini once, Pollinations once when Gemini gave no
\* image, and the custom API once when neither did and its URL is configured,
\* so up to two fallback providers; it returns None when every provider it
\* called failed or when no API key is configured, in which case it calls none.
C25_AtMostTwoFallbacks ==
    ImageRequestServed
    => /\ ~image_service.raised
       /\ \A provider \in {"gemini", "pollinations", "custom_api"} :
             Cardinality(CallsTo(provider)) <= 1
       /\ Cardinality(FallbackCalls) <= 2
       /\ Cardinality(CallsTo("custom_api")) = 1
             => /\ image_service.api_url # ""
                /\ Cardinality(CallsTo("pollinations")) = 1
       /\ Cardinality(CallsTo("pollinations")) = 1 => Cardinality(CallsTo("gemini")) = 1
       /\ image_service.api_key = ""
             => image_service.result = "" /\ image_service.calls = <<>>
       /\ (\A k \in 1..Len(image_service.calls) :
              image_service.calls[k].answer \notin {"image", "image_url"})
             <=> image_service.result = ""

\* Gemini and Pollinations failed and the custom API was called after them.
C25_Witness ==
    /\ ImageRequestServed
    /\ Len(image_service.calls) = 3
    /\ image_service.calls[3].provider = "custom_api"
    /\ image_service.result = "custom_image_url"

\* The session is held by the memory manager, in its cache or in a file.
Held(session_id) ==
    session_id \in DOMAIN memory_manager.memory_cache \cup DOMAIN memory_manager.files

\* The last-modified time of a held session as load_context would find it.
HeldLastUpdated(session_id) ==
    IF session_id \in DOMAIN memory_manager.memory_cache
    THEN memory_manager.memory_cache[session_id]
    ELSE memory_manager.files[session_id]

\* The step is a load_context call.
LoadStep ==
    /\ memory_manager' # memory_manager
    /\ memory_manager'.op = "load"

\* C26: load_context never returns a session last modified more than
\* session_timeout_hours ago: it deletes it from the cache and from disk and
\* returns None, whether the session is cached or only in its file.
C26_ExpiredSessionNotLoaded ==
    [][LET s == memory_manager'.session_id
       IN (LoadStep /\ Held(s) /\ clock > HeldLastUpdated(s) + 24)
          => /\ ~memory_manager'.returned
             /\ s \notin DOMAIN memory_manager'.memory_cache
             /\ s \notin DOMAIN memory_manager'.files]_vars

\* C27: a session made by start_conversation and driven by sequential
\* continue_conversation calls is never in discovery or brand_analysis: every
\* turn made in greeting ends in strategy_development, also when both
\* attempts of the greeting handler fail, and no later turn sets either stage.
C27_NeverDiscoveryNorBrandAnalysis ==
    /\ \A s \in DOMAIN active_contexts :
          active_contexts[s].current_stage \notin {DISCOVERY, BRAND_ANALYSIS}
    /\ (last.op = "continue" /\ last.stage_before = GREETING)
          => last.stage = STRATEGY_DEVELOPMENT

\* A turn made in greeting whose two upstream attempts both raised.
C27_Witness ==
    /\ last.op = "continue" /\ last.handler = GREETING
    /\ last.fails = 2
    /\ last.stage = STRATEGY_DEVELOPMENT

\* C28: in every state reached by start_conversation and sequential turns, a
\* session in review_refinement or finalization has a campaign output, so the
\* review and finalization handlers never send it back to content_creation,
\* and a session in content_creation has campaign_strategy and
\* content_pillars in its insights.
C28_StageImpliesItsPrerequisites ==
    /\ \A s \in DOMAIN active_contexts :
          LET ctx == active_contexts[s]
          IN /\ ctx.current_stage \in {REVIEW_REFINEMENT, FINALIZATION}
                   => ctx.campaign_output.ready
             /\ ctx.current_stage = CONTENT_CREATION
                   => {"campaign_strategy", "content_pillars"}
                         \subseteq DOMAIN ctx.extracted_insights
    /\ (last.op = "continue" /\ last.handler \in {REVIEW_REFINEMENT, FINALIZATION})
          => /\ last.stage = FINALIZATION
             /\ last.message \notin {"review_pending", "final_pending"}

\* After a comprehensive message sent it back, the session has come to
\* content_creation a second time, and the review handler has run before.
C28_Witness ==
    /\ TheSession \in DOMAIN active_contexts
    /\ active_contexts[TheSession].current_stage = CONTENT_CREATION
    /\ active_contexts[TheSession].campaign_output.ready
    /\ \E k \in 1..Len(active_contexts[TheSession].messages) :
          active_contexts[TheSession].messages[k].content = "review_message"

\* C29: with sequential calls on one session, the history alternates between
\* the two roles and, between calls, ends with an assistant message, also
\* after it has been pruned; a completed turn has appended the user message
\* and then the one assistant message it returned.
C29_HistoryAlternates ==
    /\ \A s \in DOMAIN active_contexts :
          LET h == active_contexts[s].messages
          IN /\ \A k \in 1..(Len(h) - 1) : h[k].role # h[k + 1].role
             /\ Len(h) > 0 => h[Len(h)].role = ASSISTANT
    /\ (last.op = "continue" /\ last.status = "active")
          => LET h == active_contexts[last.session_id].messages
             IN /\ Len(h) >= 2
                /\ h[Len(h) - 1].role = USER /\ h[Len(h) - 1].content = UserText
                /\ h[Len(h)].role = ASSISTANT /\ h[Len(h)].content = last.message

\* A turn has just pruned the history: it holds 40 entries, from a user
\* message to the assistant message of the turn.
C29_Witness ==
    /\ last.op = "continue" /\ last.status = "active"
    /\ LET h == active_contexts[last.session_id].messages
       IN /\ Len(h) = 40
          /\ h[1].role = USER
          /\ h[40].role = ASSISTANT /\ h[40].timestamp = clock - 2

\* The turns made on the session since start_conversation, which takes two
\* ticks of the clock; a turn takes three.
TurnsMade == (clock - 2) \div 3

\* The stage of a started session after a number of non-comprehensive turns.
StageAfter(turns) ==
    CASE turns = 0 -> GREETING
      [] turns = 1 -> STRATEGY_DEVELOPMENT
      [] turns = 2 -> CONTENT_CREATION
      [] turns = 3 -> REVIEW_REFINEMENT
      [] OTHER -> FINALIZATION

\* C30: a session made by start_conversation goes, turn by turn of
\* non-comprehensive messages, through greeting, strategy_development,
\* content_creation and review_refinement and is in finalization after
\* exactly four turns, whatever the upstream calls do; every later such turn
\* leaves it in finalization.
C30_FinalizationAfterFourTurns ==
    TheSession \in DOMAIN active_contexts
    => /\ active_contexts[TheSession].current_stage = StageAfter(TurnsMade)
       /\ last.op = "continue"
             => /\ ~last.comprehensive
                /\ last.stage_before = StageAfter(TurnsMade - 1)

\* The fifth turn has left the session in finalization, after a conversation
\* in which upstream requests raised.
C30_Witness ==
    /\ TheSession \in DOMAIN active_contexts
    /\ TurnsMade = 5
    /\ last.op = "continue" /\ last.stage_before = FINALIZATION
    /\ active_contexts[TheSession].current_stage = FINALIZATION
    /\ \E k \in 1..Len(active_contexts[TheSession].messages) :
          active_contexts[TheSession].messages[k].content = "greeting_error"

====
